---- MODULE Spec2Model ----
(***************************************************************************)
(* Verification development for beautiful-mermaid's ASCII flowchart        *)
(* pipeline: grid A* pathfinding, strict edge routing, layout retry,       *)
(* canvas compositing, label placement, reverse parsing and connected      *)
(* components.  Several specifications share this module; every           *)
(* specification owns a group of variables and keeps the others fixed.     *)
(***************************************************************************)
EXTENDS Integers, Sequences, FiniteSets, TLC

VARIABLES
  pc,           \* which specification is running and where it stands
  ctx,          \* AStarContext: stride, height, blocked, stamp, costStamp, costSoFar, cameFrom
  query,        \* last getPath call: from, to, maxX, maxY
  result,       \* last getPath result: found, path
  nSearch,      \* number of searches run on ctx
  graph,        \* the flowchart: n nodes, edges in input order, graphDirection
  marginIdx,    \* position in LAYOUT_MARGIN_STEPS of the current layout attempt
  attempts,     \* history: the margin and outcome of every finished attempt
  gridCoords,   \* gridCoord of every node in the current attempt
  segmentUsage, \* SegmentUsageMap of the current attempt
  usedPoints,   \* UsedPointSet of the current attempt
  edgeOut,      \* per routed edge: startDir, endDir, path, pathIdx, stage, clearance
  lastPre,      \* segmentUsage and usedPoints as they were before the last routed edge
  cursor,       \* inside determinePath: stage k, expansion step j, candidate i, best so far
  gridSizes,    \* columnWidth and rowHeight
  nodeDrawing,  \* per node: drawingCoord and box drawing, or Null
  graphCanvas,  \* graph.canvas as its highest valid indices
  drawResult    \* outcome of drawGraph

pathVars == <<query, result, nSearch>>

routeVars == <<graph, marginIdx, attempts, gridCoords, segmentUsage, usedPoints, edgeOut, lastPre,
               cursor, gridSizes, nodeDrawing, graphCanvas, drawResult>>

vars == <<pc, ctx, pathVars, routeVars>>

(***************************************************************************)
(* Generic helpers                                                         *)
(***************************************************************************)
Min(a, b) == IF a < b THEN a ELSE b

Max(a, b) == IF a > b THEN a ELSE b

Abs(a) == IF a < 0 THEN 0 - a ELSE a

RECURSIVE SetMax(_)
SetMax(S) == IF S = {} THEN 0 ELSE LET x == CHOOSE y \in S : TRUE IN Max(x, SetMax(S \ {x}))

Last(s) == s[Len(s)]

\* A for loop: Op(acc, i) for i = lo, lo + 1, .., hi in this order.  The range is
\* halved, and the first half is evaluated before the second is entered (the
\* comparison forces it), so that the evaluation depth stays logarithmic.
RECURSIVE FoldRange(_, _, _, _)
FoldRange(Op(_, _), acc, lo, hi) ==
  IF lo < hi
  THEN LET left == FoldRange(Op, acc, lo, (lo + hi) \div 2)
       IN IF left = left THEN FoldRange(Op, left, ((lo + hi) \div 2) + 1, hi) ELSE acc
  ELSE IF lo = hi THEN Op(acc, lo) ELSE acc

(***************************************************************************)
(* MinHeap: binary min-heap on priority.  The three parallel arrays of the *)
(* source are one sequence of records; position i of the source is         *)
(* position i+1 here.                                                      *)
(***************************************************************************)
HeapSwap(h, i, j) == [h EXCEPT ![i + 1] = h[j + 1], ![j + 1] = h[i + 1]]

RECURSIVE bubbleUp(_, _)
bubbleUp(h, i) ==
  IF i > 0
  THEN LET parent == (i - 1) \div 2
       IN IF h[i + 1].priority < h[parent + 1].priority
          THEN bubbleUp(HeapSwap(h, i, parent), parent)
          ELSE h
  ELSE h

RECURSIVE sinkDown(_, _)
sinkDown(h, i) ==
  LET n == Len(h)
      left == 2 * i + 1
      right == 2 * i + 2
      s1 == IF left < n /\ h[left + 1].priority < h[i + 1].priority THEN left ELSE i
      smallest == IF right < n /\ h[right + 1].priority < h[s1 + 1].priority THEN right ELSE s1
  IN IF smallest # i THEN sinkDown(HeapSwap(h, i, smallest), smallest) ELSE h

HeapPush(h, idx, priority, cost) ==
  bubbleUp(Append(h, [idx |-> idx, priority |-> priority, cost |-> cost]), Len(h))

\* the heap after pop(); the popped entry is h[1]
HeapPop(h) ==
  LET last == h[Len(h)]
      rest == SubSeq(h, 1, Len(h) - 1)
  IN IF Len(rest) > 0 THEN sinkDown([rest EXCEPT ![1] = last], 0) ELSE rest

(***************************************************************************)
(* AStarContext                                                            *)
(***************************************************************************)
\* width of the stamp counter: Uint32 in the source
StampModulus == 1073741824

makeAStarContext(stride, height) ==
  [ stride    |-> stride,
    height    |-> height,
    blocked   |-> {},
    stamp     |-> 0,
    costStamp |-> [i \in 0..(stride * height - 1) |-> 0],
    costSoFar |-> [i \in 0..(stride * height - 1) |-> 0],
    cameFrom  |-> [i \in 0..(stride * height - 1) |-> 0] ]

gridCoordToIdx(stride, c) == c.x + c.y * stride

idxToGridCoord(stride, idx) == [x |-> idx % stride, y |-> idx \div stride]

\* one iteration of the merge loops: acc is [n, out, prevDelta]
MergeTurn(path, acc, i) ==
  LET delta == path[i] - path[i - 1]
  IN IF delta # acc.prevDelta
     THEN [n |-> acc.n + 1, out |-> Append(acc.out, path[i - 1]), prevDelta |-> delta]
     ELSE acc

MergeTurns(path) ==
  FoldRange(LAMBDA acc, i : MergeTurn(path, acc, i),
            [n |-> 0, out |-> <<>>, prevDelta |-> path[2] - path[1]], 3, Len(path))

mergePathLengthIdx(path) ==
  IF Len(path) <= 2 THEN Len(path)
  ELSE 2 + MergeTurns(path).n

mergePathIdx(path) ==
  IF Len(path) <= 2 THEN path
  ELSE <<path[1]>> \o MergeTurns(path).out \o <<path[Len(path)]>>

(***************************************************************************)
(* Connection bits of usedPoints masks                                     *)
(***************************************************************************)
CONNECT_LEFT == 1
CONNECT_RIGHT == 2
CONNECT_UP == 4
CONNECT_DOWN == 8

HasBit(mask, bit) == (mask \div bit) % 2 = 1

BitOr(mask, bit) == IF HasBit(mask, bit) THEN mask ELSE mask + bit

\* sparse typed array: an absent key reads as 0
Get(f, k) == IF k \in DOMAIN f THEN f[k] ELSE 0

Put(f, k, v) == IF k \in DOMAIN f THEN [f EXCEPT ![k] = v] ELSE f @@ (k :> v)

wouldBecomeCrossAfterSetting(mask, bit) ==
  LET next == BitOr(mask, bit)
  IN /\ HasBit(next, CONNECT_LEFT) /\ HasBit(next, CONNECT_RIGHT)
     /\ HasBit(next, CONNECT_UP) /\ HasBit(next, CONNECT_DOWN)

(***************************************************************************)
(* Segment usage and strict routing constraints                            *)
(***************************************************************************)
EmptyUsage ==
  [ segmentUsed      |-> {},
    usedAsMiddle     |-> {},
    startSource      |-> <<>>,
    startSourceMulti |-> {},
    endTarget        |-> <<>>,
    endTargetMulti   |-> {},
    usedCount        |-> 0 ]

\* getPath runs without constraints; getPathStrict with them
NoConstraints ==
  [ strict |-> FALSE, usedPoints |-> <<>>, segmentUsage |-> EmptyUsage,
    routeFromIdx |-> 0, routeToIdx |-> 0, edgeFromId |-> 0, edgeToId |-> 0 ]

\* the usedPoints test of one step inside getPathStrict
StrictPointOk(cons, currentIdx, nextIdx, fromBit, toBit) ==
  LET fromMask == Get(cons.usedPoints, currentIdx)
      toMask == Get(cons.usedPoints, nextIdx)
  IN /\ ~(fromMask # 0 /\ wouldBecomeCrossAfterSetting(fromMask, fromBit))
     /\ ~(toMask # 0 /\ wouldBecomeCrossAfterSetting(toMask, toBit))

\* mutant of StrictSegmentOk: every used segment may be shared
StrictSegmentOkAlways(cons, currentIdx, nextIdx, segKey) == TRUE

\* the segmentUsage test of one step inside getPathStrict
StrictSegmentOk(cons, currentIdx, nextIdx, segKey) ==
  LET u == cons.segmentUsage
      isStartStep == currentIdx = cons.routeFromIdx
      isEndStep == nextIdx = cons.routeToIdx
      ss == Get(u.startSource, segKey)
      et == Get(u.endTarget, segKey)
      ssMulti == segKey \in u.startSourceMulti
      etMulti == segKey \in u.endTargetMulti
  IN IF segKey \notin u.segmentUsed THEN TRUE
     ELSE IF segKey \in u.usedAsMiddle THEN FALSE
     ELSE IF isStartStep /\ isEndStep
          THEN (~ssMulti /\ (ss = 0 \/ ss = cons.edgeFromId))
               /\ (~etMulti /\ (et = 0 \/ et = cons.edgeToId))
     ELSE IF isStartStep
          THEN ~etMulti /\ et = 0 /\ ~ssMulti /\ ss = cons.edgeFromId
     ELSE IF isEndStep
          THEN ~ssMulti /\ ss = 0 /\ ~etMulti /\ et = cons.edgeToId
     ELSE FALSE

StepOk(cons, currentIdx, nextIdx, fromBit, toBit, segKey) ==
  IF ~cons.strict THEN TRUE
  ELSE /\ StrictPointOk(cons, currentIdx, nextIdx, fromBit, toBit)
       /\ StrictSegmentOk(cons, currentIdx, nextIdx, segKey)

(***************************************************************************)
(* A* search.  s is the search state: heap and the three reused arrays.    *)
(***************************************************************************)
\* a heuristic that overestimates by more than the parity of the grid absorbs
HeuristicTripled(nextX, nextY, toX, toY) == 3 * (Abs(nextX - toX) + Abs(nextY - toY))

Heuristic(nextX, nextY, toX, toY) ==
  LET absX == Abs(nextX - toX)
      absY == Abs(nextY - toY)
  IN IF absX = 0 \/ absY = 0 THEN absX + absY ELSE absX + absY + 1

\* mutant of CanEnter: blocked cells may be entered
CanEnterAnyCell(blocked, nextIdx, toIdx) == TRUE

\* may the search step from currentIdx into nextIdx at all
CanEnter(blocked, nextIdx, toIdx) == nextIdx \notin blocked \/ nextIdx = toIdx

\* one neighbour of the popped cell: inBounds is the direction's bound test
Relax(s, stamp, blocked, cons, toIdx, stride, currentIdx, inBounds, nextIdx, fromBit, toBit, segKey) ==
  IF ~inBounds THEN s
  ELSE IF ~CanEnter(blocked, nextIdx, toIdx) THEN s
  ELSE IF ~StepOk(cons, currentIdx, nextIdx, fromBit, toBit, segKey) THEN s
  ELSE LET newCost == s.costSoFar[currentIdx] + 1
       IN IF s.costStamp[nextIdx] # stamp \/ newCost < s.costSoFar[nextIdx]
          THEN LET h == Heuristic(nextIdx % stride, nextIdx \div stride,
                                  toIdx % stride, toIdx \div stride)
               IN [s EXCEPT !.heap = HeapPush(s.heap, nextIdx, newCost + h, newCost),
                            !.costStamp[nextIdx] = stamp,
                            !.costSoFar[nextIdx] = newCost,
                            !.cameFrom[nextIdx] = currentIdx]
          ELSE s

\* the four neighbours in the source's order: right, left, down, up
Expand(s, stamp, blocked, cons, toIdx, stride, maxX, maxY, currentIdx) ==
  LET currentX == currentIdx % stride
      currentY == currentIdx \div stride
      sR == Relax(s, stamp, blocked, cons, toIdx, stride, currentIdx, currentX < maxX,
                  currentIdx + 1, CONNECT_RIGHT, CONNECT_LEFT, currentIdx * 2)
      sL == Relax(sR, stamp, blocked, cons, toIdx, stride, currentIdx, currentX > 0,
                  currentIdx - 1, CONNECT_LEFT, CONNECT_RIGHT, (currentIdx - 1) * 2)
      sD == Relax(sL, stamp, blocked, cons, toIdx, stride, currentIdx, currentY < maxY,
                  currentIdx + stride, CONNECT_DOWN, CONNECT_UP, currentIdx * 2 + 1)
  IN Relax(sD, stamp, blocked, cons, toIdx, stride, currentIdx, currentY > 0,
           currentIdx - stride, CONNECT_UP, CONNECT_DOWN, (currentIdx - stride) * 2 + 1)

\* the chain of cameFrom from c back to -1, at most n cells of it, oldest first
RECURSIVE BackSeg(_, _, _)
BackSeg(cameFrom, c, n) ==
  IF c = -1 THEN <<>>
  ELSE IF n <= 1 THEN <<c>>
  ELSE LET right == BackSeg(cameFrom, c, n \div 2)
       IN IF Len(right) < n \div 2 THEN right
          ELSE BackSeg(cameFrom, cameFrom[right[1]], n - (n \div 2)) \o right

BacktrackChunk == 64

RECURSIVE Backtrack(_, _)
Backtrack(cameFrom, c) ==
  LET seg == BackSeg(cameFrom, c, BacktrackChunk)
  IN IF Len(seg) < BacktrackChunk THEN seg
     ELSE Backtrack(cameFrom, cameFrom[seg[1]]) \o seg

\* one iteration of the while (heap.pop()) loop; done is set when the loop ends
SearchStep(s, stamp, blocked, cons, toIdx, stride, maxX, maxY) ==
  IF Len(s.heap) = 0 THEN [s EXCEPT !.done = TRUE]
  ELSE LET top == s.heap[1]
           s1 == [s EXCEPT !.heap = HeapPop(s.heap)]
       IN IF s.costStamp[top.idx] # stamp \/ top.cost # s.costSoFar[top.idx]
          THEN s1
          ELSE IF top.idx = toIdx
          THEN [s1 EXCEPT !.done = TRUE, !.found = TRUE, !.path = Backtrack(s.cameFrom, top.idx)]
          ELSE Expand(s1, stamp, blocked, cons, toIdx, stride, maxX, maxY, top.idx)

\* the loop is unrolled in chunks so that its evaluation depth stays small
LoopChunk == 256

RECURSIVE SearchSteps(_, _, _, _, _, _, _, _, _)
SearchSteps(s, k, stamp, blocked, cons, toIdx, stride, maxX, maxY) ==
  IF s.done \/ k <= 1
  THEN (IF s.done THEN s ELSE SearchStep(s, stamp, blocked, cons, toIdx, stride, maxX, maxY))
  ELSE SearchSteps(SearchSteps(s, k \div 2, stamp, blocked, cons, toIdx, stride, maxX, maxY),
                   k - (k \div 2), stamp, blocked, cons, toIdx, stride, maxX, maxY)

RECURSIVE SearchLoop(_, _, _, _, _, _, _, _)
SearchLoop(s, stamp, blocked, cons, toIdx, stride, maxX, maxY) ==
  IF s.done THEN s
  ELSE SearchLoop(SearchSteps(s, LoopChunk, stamp, blocked, cons, toIdx, stride, maxX, maxY),
                  stamp, blocked, cons, toIdx, stride, maxX, maxY)

\* the increment without the step over 0
NextStampPlain(stamp) == (stamp + 1) % StampModulus

NextStamp(stamp) ==
  LET n == (stamp + 1) % StampModulus IN IF n = 0 THEN 1 ELSE n

\* result: found, path and the context after the search
Search(c, fromIdx, toIdx, maxX, maxY, cons) ==
  IF maxX < 0 \/ maxY < 0 THEN [found |-> FALSE, path |-> <<>>, ctx |-> c]
  ELSE LET stamp == NextStamp(c.stamp)
           s0 == [ heap      |-> HeapPush(<<>>, fromIdx, 0, 0),
                   costStamp |-> [c.costStamp EXCEPT ![fromIdx] = stamp],
                   costSoFar |-> [c.costSoFar EXCEPT ![fromIdx] = 0],
                   cameFrom  |-> [c.cameFrom EXCEPT ![fromIdx] = -1],
                   done      |-> FALSE,
                   found     |-> FALSE,
                   path      |-> <<>> ]
           r == SearchLoop(s0, stamp, c.blocked, cons, toIdx, c.stride, maxX, maxY)
       IN [ found |-> r.found,
            path  |-> r.path,
            ctx   |-> [c EXCEPT !.stamp = stamp, !.costStamp = r.costStamp,
                                !.costSoFar = r.costSoFar, !.cameFrom = r.cameFrom] ]

getPath(c, fromIdx, toIdx, maxX, maxY) == Search(c, fromIdx, toIdx, maxX, maxY, NoConstraints)

getPathStrict(c, fromIdx, toIdx, maxX, maxY, cons) == Search(c, fromIdx, toIdx, maxX, maxY, cons)

(***************************************************************************)
(* Directions: offsets into a node's 3x3 block.  A port is the cell        *)
(* gridCoord + direction, so ports lie on the block's border.              *)
(***************************************************************************)
Up == [x |-> 1, y |-> 0]
Down == [x |-> 1, y |-> 2]
Left == [x |-> 0, y |-> 1]
Right == [x |-> 2, y |-> 1]
UpperRight == [x |-> 2, y |-> 0]
UpperLeft == [x |-> 0, y |-> 0]
LowerRight == [x |-> 2, y |-> 2]
LowerLeft == [x |-> 0, y |-> 2]
Middle == [x |-> 1, y |-> 1]

gridCoordDirection(c, dir) == [x |-> c.x + dir.x, y |-> c.y + dir.y]

getOpposite(d) ==
  IF d = Up THEN Down
  ELSE IF d = Down THEN Up
  ELSE IF d = Left THEN Right
  ELSE IF d = Right THEN Left
  ELSE IF d = UpperRight THEN LowerLeft
  ELSE IF d = UpperLeft THEN LowerRight
  ELSE IF d = LowerRight THEN UpperLeft
  ELSE IF d = LowerLeft THEN UpperRight
  ELSE Middle

determineDirection(from, to) ==
  IF from.x = to.x THEN (IF from.y < to.y THEN Down ELSE Up)
  ELSE IF from.y = to.y THEN (IF from.x < to.x THEN Right ELSE Left)
  ELSE IF from.x < to.x THEN (IF from.y < to.y THEN LowerRight ELSE UpperRight)
  ELSE (IF from.y < to.y THEN LowerLeft ELSE UpperLeft)

selfReferenceDirection(graphDirection) ==
  IF graphDirection = "LR" THEN <<Right, Down, Down, Right>> ELSE <<Down, Right, Right, Down>>

\* <<preferredDir, preferredOppositeDir, alternativeDir, alternativeOppositeDir>>
determineStartAndEndDir(isSelf, fromCoord, toCoord, graphDirection) ==
  IF isSelf THEN selfReferenceDirection(graphDirection)
  ELSE
    LET d == determineDirection(fromCoord, toCoord)
        isBackwards == IF graphDirection = "LR"
                       THEN d \in {Left, UpperLeft, LowerLeft}
                       ELSE d \in {Up, UpperLeft, UpperRight}
    IN IF d = LowerRight
       THEN (IF graphDirection = "LR" THEN <<Down, Left, Right, Up>> ELSE <<Right, Up, Down, Left>>)
       ELSE IF d = UpperRight
       THEN (IF graphDirection = "LR" THEN <<Up, Left, Right, Down>> ELSE <<Right, Down, Up, Left>>)
       ELSE IF d = LowerLeft
       THEN (IF graphDirection = "LR" THEN <<Down, Down, Left, Up>> ELSE <<Left, Up, Down, Right>>)
       ELSE IF d = UpperLeft
       THEN (IF graphDirection = "LR" THEN <<Down, Down, Left, Down>> ELSE <<Right, Right, Up, Right>>)
       ELSE IF isBackwards
       THEN (IF graphDirection = "LR" /\ d = Left THEN <<Down, Down, Left, Right>>
             ELSE IF graphDirection = "TD" /\ d = Up THEN <<Right, Right, Up, Down>>
             ELSE <<d, getOpposite(d), d, getOpposite(d)>>)
       ELSE <<d, getOpposite(d), d, getOpposite(d)>>

(***************************************************************************)
(* Usage recording                                                         *)
(***************************************************************************)
segmentKey(fromIdx, toIdx) ==
  LET diff == toIdx - fromIdx
      isHorizontal == diff = 1 \/ diff = -1
      smaller == IF fromIdx < toIdx THEN fromIdx ELSE toIdx
  IN smaller * 2 + (IF isHorizontal THEN 0 ELSE 1)

\* the loop body that marks the segment used and nothing more
RecordSegmentUsedOnly(u, edgeFromId, edgeToId, pathIdx, i) ==
  [u EXCEPT !.segmentUsed = @ \cup {segmentKey(pathIdx[i - 1], pathIdx[i])},
            !.usedCount = @ + 1]

\* the body of recordPathSegments' loop for segment i of pathIdx
RecordSegment(u, edgeFromId, edgeToId, pathIdx, i) ==
  LET key == segmentKey(pathIdx[i - 1], pathIdx[i])
      isStartSegment == i = 2
      isEndSegment == i = Len(pathIdx)
      u1 == IF key \notin u.segmentUsed
            THEN [u EXCEPT !.segmentUsed = @ \cup {key}, !.usedCount = @ + 1]
            ELSE u
      u2 == IF isStartSegment
            THEN (IF Get(u1.startSource, key) = 0
                  THEN [u1 EXCEPT !.startSource = Put(@, key, edgeFromId)]
                  ELSE IF Get(u1.startSource, key) # edgeFromId
                  THEN [u1 EXCEPT !.startSourceMulti = @ \cup {key}]
                  ELSE u1)
            ELSE u1
      u3 == IF isEndSegment
            THEN (IF Get(u2.endTarget, key) = 0
                  THEN [u2 EXCEPT !.endTarget = Put(@, key, edgeToId)]
                  ELSE IF Get(u2.endTarget, key) # edgeToId
                  THEN [u2 EXCEPT !.endTargetMulti = @ \cup {key}]
                  ELSE u2)
            ELSE u2
  IN IF ~isStartSegment /\ ~isEndSegment
     THEN [u3 EXCEPT !.usedAsMiddle = @ \cup {key}]
     ELSE u3

recordPathSegments(u, edgeFromId, edgeToId, pathIdx) ==
  FoldRange(LAMBDA acc, i : RecordSegment(acc, edgeFromId, edgeToId, pathIdx, i),
            u, 2, Len(pathIdx))

\* <<fromBit, toBit>>, or <<>> when the two cells are not neighbours
stepToConnectionBits(stepFromIdx, stepToIdx, stride) ==
  LET diff == stepToIdx - stepFromIdx
  IN IF diff = 1 THEN <<CONNECT_RIGHT, CONNECT_LEFT>>
     ELSE IF diff = -1 THEN <<CONNECT_LEFT, CONNECT_RIGHT>>
     ELSE IF diff = stride THEN <<CONNECT_DOWN, CONNECT_UP>>
     ELSE IF diff = 0 - stride THEN <<CONNECT_UP, CONNECT_DOWN>>
     ELSE <<>>

RecordPoint(up, blocked, stride, fromIdx, toIdx) ==
  LET bits == stepToConnectionBits(fromIdx, toIdx, stride)
  IN IF bits = <<>> THEN up
     ELSE LET up1 == IF fromIdx \notin blocked
                     THEN Put(up, fromIdx, BitOr(Get(up, fromIdx), bits[1]))
                     ELSE up
          IN IF toIdx \notin blocked
             THEN Put(up1, toIdx, BitOr(Get(up1, toIdx), bits[2]))
             ELSE up1

recordPathPoints(up, c, pathIdx) ==
  FoldRange(LAMBDA acc, i : RecordPoint(acc, c.blocked, c.stride, pathIdx[i - 1], pathIdx[i]),
            up, 2, Len(pathIdx))

isAllowedToEnterUsedPoint(c, up, stepFromIdx, stepToIdx) ==
  LET bits == stepToConnectionBits(stepFromIdx, stepToIdx, c.stride)
  IN IF bits = <<>> THEN TRUE
     ELSE /\ ~(/\ stepFromIdx \notin c.blocked
               /\ Get(up, stepFromIdx) # 0
               /\ wouldBecomeCrossAfterSetting(Get(up, stepFromIdx), bits[1]))
          /\ ~(/\ stepToIdx \notin c.blocked
               /\ Get(up, stepToIdx) # 0
               /\ wouldBecomeCrossAfterSetting(Get(up, stepToIdx), bits[2]))

isAllowedToShareSegmentStrict(u, edgeFromId, edgeToId, routeFromIdx, routeToIdx, stepFromIdx, stepToIdx, segKey) ==
  LET isStartStep == stepFromIdx = routeFromIdx
      isEndStep == stepToIdx = routeToIdx
      startSource == Get(u.startSource, segKey)
      endTarget == Get(u.endTarget, segKey)
      startSourceMulti == segKey \in u.startSourceMulti
      endTargetMulti == segKey \in u.endTargetMulti
  IN IF segKey \in u.usedAsMiddle THEN FALSE
     ELSE IF isStartStep /\ isEndStep
          THEN (~startSourceMulti /\ (startSource = 0 \/ startSource = edgeFromId))
               /\ (~endTargetMulti /\ (endTarget = 0 \/ endTarget = edgeToId))
     ELSE IF isStartStep
          THEN ~endTargetMulti /\ endTarget = 0 /\ ~startSourceMulti /\ startSource = edgeFromId
     ELSE IF isEndStep
          THEN ~startSourceMulti /\ startSource = 0 /\ ~endTargetMulti /\ endTarget = edgeToId
     ELSE FALSE

\* mergePath on grid coordinates: drop the middle point of two equal steps
mergePath(path) ==
  IF Len(path) <= 2 THEN path
  ELSE LET keeps(i) == ~(/\ i > 1 /\ i < Len(path)
                         /\ path[i].x - path[i - 1].x = path[i + 1].x - path[i].x
                         /\ path[i].y - path[i - 1].y = path[i + 1].y - path[i].y)
       IN FoldRange(LAMBDA acc, i : IF keeps(i) THEN Append(acc, path[i]) ELSE acc,
                    <<>>, 1, Len(path))

(***************************************************************************)
(* determinePath.  The bounds-expansion ladder of the source is            *)
(* 12 * <<1, 2, 4>> and 12 * <<1, 2, 4, 8, 16, 32>>; here the unit is      *)
(* ExpandUnit and every rung is capped at MaxExpandBy so that grids stay   *)
(* small.  With ExpandUnit = 12 and MaxExpandBy = 384 it is the source's.  *)
(***************************************************************************)
ExpandUnit == 1
MaxExpandBy == 6
MaxClearance == 12

ROUTING_BOUNDS_EXPAND_STEPS_FAST ==
  <<Min(ExpandUnit, MaxExpandBy), Min(2 * ExpandUnit, MaxExpandBy), Min(4 * ExpandUnit, MaxExpandBy)>>

ROUTING_BOUNDS_EXPAND_STEPS_FULL ==
  ROUTING_BOUNDS_EXPAND_STEPS_FAST \o
  <<Min(8 * ExpandUnit, MaxExpandBy), Min(16 * ExpandUnit, MaxExpandBy), Min(32 * ExpandUnit, MaxExpandBy)>>

ROUTING_MAX_BOUNDS_EXPAND_BY ==
  ROUTING_BOUNDS_EXPAND_STEPS_FULL[Len(ROUTING_BOUNDS_EXPAND_STEPS_FULL)]

RECURSIVE uniqueDirections(_)
uniqueDirections(dirs) ==
  IF dirs = <<>> THEN <<>>
  ELSE LET front == uniqueDirections(SubSeq(dirs, 1, Len(dirs) - 1))
           d == dirs[Len(dirs)]
       IN IF \E i \in 1..Len(front) : front[i] = d THEN front ELSE Append(front, d)

MakeCandidate(fromCoord, toCoord, startDir, endDir, stride) ==
  LET routeFrom == gridCoordDirection(fromCoord, startDir)
      routeTo == gridCoordDirection(toCoord, endDir)
  IN [ startDir |-> startDir, endDir |-> endDir,
       routeFrom |-> routeFrom, routeTo |-> routeTo,
       routeFromIdx |-> gridCoordToIdx(stride, routeFrom),
       routeToIdx |-> gridCoordToIdx(stride, routeTo) ]

RECURSIVE DropDegenerate(_)
DropDegenerate(cands) ==
  IF cands = <<>> THEN <<>>
  ELSE IF cands[1].routeFrom = cands[1].routeTo THEN DropDegenerate(Tail(cands))
  ELSE <<cands[1]>> \o DropDegenerate(Tail(cands))

\* start directions outer, end directions inner; candidates of one point are skipped
buildCandidates(fromCoord, toCoord, startDirs, endDirs, stride) ==
  DropDegenerate(
    [k \in 1..(Len(startDirs) * Len(endDirs)) |->
       MakeCandidate(fromCoord, toCoord,
                     startDirs[((k - 1) \div Len(endDirs)) + 1],
                     endDirs[((k - 1) % Len(endDirs)) + 1], stride)])

portPenalty(dir) == IF dir \in {Up, Down, Left, Right} THEN 0 ELSE 100

boundaryPortPenalty(port) == IF port.x = 0 \/ port.y = 0 THEN 200 ELSE 0

candidateCost(candidate, pathIdx) ==
  mergePathLengthIdx(pathIdx)
  + portPenalty(candidate.startDir) + portPenalty(candidate.endDir)
  + boundaryPortPenalty(candidate.routeFrom) + boundaryPortPenalty(candidate.routeTo)

baseCandidatesOf(fromCoord, toCoord, dirs, stride) ==
  DropDegenerate(
    IF dirs[1] # dirs[3] \/ dirs[2] # dirs[4]
    THEN << MakeCandidate(fromCoord, toCoord, dirs[1], dirs[2], stride),
            MakeCandidate(fromCoord, toCoord, dirs[3], dirs[4], stride) >>
    ELSE << MakeCandidate(fromCoord, toCoord, dirs[1], dirs[2], stride) >>)

directionToStep(dir) ==
  IF dir = Up THEN [x |-> 0, y |-> -1]
  ELSE IF dir = Down THEN [x |-> 0, y |-> 1]
  ELSE IF dir = Left THEN [x |-> -1, y |-> 0]
  ELSE IF dir = Right THEN [x |-> 1, y |-> 0]
  ELSE [x |-> 0, y |-> 0]

\* the points appendStraightLine pushes: after from, up to and including to
StraightLine(from, to) ==
  IF from.x = to.x
  THEN [k \in 1..Abs(to.y - from.y) |->
          [x |-> from.x, y |-> from.y + (IF to.y > from.y THEN k ELSE 0 - k)]]
  ELSE [k \in 1..Abs(to.x - from.x) |->
          [x |-> from.x + (IF to.x > from.x THEN k ELSE 0 - k), y |-> from.y]]

InGrid(c, p) == p.x >= 0 /\ p.y >= 0 /\ p.x < c.stride /\ p.y < c.height

isDeterministicSelfLoopPathValid(c, usage, up, edgeFromId, edgeToId, candidate, path) ==
  /\ Len(path) >= 4
  /\ \A i \in 1..Len(path) :
       /\ InGrid(c, path[i])
       /\ (path[i] = candidate.routeFrom \/ path[i] = candidate.routeTo
           \/ gridCoordToIdx(c.stride, path[i]) \notin c.blocked)
  /\ \A i \in 2..Len(path) :
       LET stepFromIdx == gridCoordToIdx(c.stride, path[i - 1])
           stepToIdx == gridCoordToIdx(c.stride, path[i])
           segKey == segmentKey(stepFromIdx, stepToIdx)
       IN /\ isAllowedToEnterUsedPoint(c, up, stepFromIdx, stepToIdx)
          /\ (segKey \in usage.segmentUsed =>
                isAllowedToShareSegmentStrict(usage, edgeFromId, edgeToId,
                                              candidate.routeFromIdx, candidate.routeToIdx,
                                              stepFromIdx, stepToIdx, segKey))

\* drop a point equal to its predecessor
Dedupe(points) ==
  FoldRange(LAMBDA acc, i : IF i > 1 /\ points[i] = points[i - 1] THEN acc
                            ELSE Append(acc, points[i]),
            <<>>, 1, Len(points))

\* the point list of one of the two bends (mid), before validation
SelfLoopPoints(candidate, clearance, mid) ==
  LET p1 == <<candidate.routeFrom>>
      startStep == directionToStep(candidate.startDir)
      endStep == directionToStep(candidate.endDir)
      startOutside == [x |-> candidate.routeFrom.x + startStep.x * clearance,
                       y |-> candidate.routeFrom.y + startStep.y * clearance]
      endOutside == [x |-> candidate.routeTo.x + endStep.x * clearance,
                     y |-> candidate.routeTo.y + endStep.y * clearance]
      midPoint == IF mid = 1 THEN [x |-> startOutside.x, y |-> endOutside.y]
                  ELSE [x |-> endOutside.x, y |-> startOutside.y]
      p2 == p1 \o StraightLine(candidate.routeFrom, startOutside)
      p3 == p2 \o StraightLine(startOutside, midPoint)
      p4 == p3 \o StraightLine(midPoint, endOutside)
  IN Dedupe(p4 \o StraightLine(endOutside, candidate.routeTo))

\* the deduplicated point list of the first valid bend, or <<>> for null
buildDeterministicSelfLoopPath(c, usage, up, edgeFromId, edgeToId, candidate, clearance) ==
  IF directionToStep(candidate.startDir) = [x |-> 0, y |-> 0]
     \/ directionToStep(candidate.endDir) = [x |-> 0, y |-> 0]
     \/ clearance < 1
  THEN <<>>
  ELSE LET ok(path) == /\ isDeterministicSelfLoopPathValid(c, usage, up, edgeFromId, edgeToId,
                                                            candidate, path)
                       /\ Len(mergePath(path)) >= 4
           first == SelfLoopPoints(candidate, clearance, 1)
           second == SelfLoopPoints(candidate, clearance, 2)
       IN IF ok(first) THEN first ELSE IF ok(second) THEN second ELSE <<>>

\* first valid clearance of the candidates in order: [ok, candidate, clearance, points]
SelfLoopScan(c, usage, up, edgeFromId, edgeToId, cands) ==
  FoldRange(LAMBDA acc, k :
              IF acc.ok THEN acc
              ELSE LET i == ((k - 1) \div MaxClearance) + 1
                       clearance == ((k - 1) % MaxClearance) + 1
                       pts == buildDeterministicSelfLoopPath(c, usage, up, edgeFromId, edgeToId,
                                                             cands[i], clearance)
                   IN IF pts # <<>>
                      THEN [ok |-> TRUE, candidate |-> cands[i], clearance |-> clearance,
                            points |-> pts]
                      ELSE acc,
            [ok |-> FALSE, candidate |-> <<>>, clearance |-> 0, points |-> <<>>],
            1, Len(cands) * MaxClearance)

computeSearchBounds(c, baseMaxX, baseMaxY, expandBy) ==
  [ maxX |-> Min(c.stride - 1, baseMaxX + expandBy),
    maxY |-> Min(c.height - 1, baseMaxY + expandBy) ]

NoPick == [ok |-> FALSE, candidate |-> <<>>, pathIdx |-> <<>>, cost |-> 0]

NoCursor == [k |-> 0, j |-> 0, i |-> 0, best |-> NoPick]

\* env: isSelfLoop, strict, usage, usedPoints, edgeFromId, edgeToId, baseMaxX, baseMaxY
\* the inner loop of pickBestFallback / pickBestStrict over the candidates
\* acc: [ctx, best]
PickCandidate(acc, env, cand, bounds) ==
  LET cons == IF env.strict
              THEN [ strict |-> TRUE, usedPoints |-> env.usedPoints,
                     segmentUsage |-> env.usage,
                     routeFromIdx |-> cand.routeFromIdx, routeToIdx |-> cand.routeToIdx,
                     edgeFromId |-> env.edgeFromId, edgeToId |-> env.edgeToId ]
              ELSE NoConstraints
      r == IF env.strict
           THEN getPathStrict(acc.ctx, cand.routeFromIdx, cand.routeToIdx, bounds.maxX, bounds.maxY, cons)
           ELSE getPath(acc.ctx, cand.routeFromIdx, cand.routeToIdx, bounds.maxX, bounds.maxY)
  IN IF ~r.found
     THEN [ctx |-> r.ctx, best |-> acc.best]
     ELSE IF env.isSelfLoop /\ mergePathLengthIdx(r.path) < 4
     THEN [ctx |-> r.ctx, best |-> acc.best]
     ELSE LET cost == candidateCost(cand, r.path)
          IN IF ~acc.best.ok \/ cost < acc.best.cost
             THEN [ctx |-> r.ctx,
                   best |-> [ok |-> TRUE, candidate |-> cand, pathIdx |-> r.path, cost |-> cost]]
             ELSE [ctx |-> r.ctx, best |-> acc.best]

\* determinePath up to the candidate sets: directions and the three candidate lists
EdgePlan(graphDirection, coords, edge, stride) ==
  LET isSelfLoop == edge.from = edge.to
      fromCoord == coords[edge.from]
      toCoord == coords[edge.to]
      dirs == determineStartAndEndDir(isSelfLoop, fromCoord, toCoord, graphDirection)
      baseEndDirs == uniqueDirections(<<dirs[2], dirs[4]>>)
      expandedStartDirs == uniqueDirections(<<dirs[1], dirs[3], Right, Left, Down, Up>>)
      expandedEndDirs == uniqueDirections(<<dirs[2], dirs[4], Right, Left, Down, Up>>)
  IN [ isSelfLoop |-> isSelfLoop,
       dirs |-> dirs,
       baseCandidates |-> baseCandidatesOf(fromCoord, toCoord, dirs, stride),
       expandedStartCandidates |->
         buildCandidates(fromCoord, toCoord, expandedStartDirs, baseEndDirs, stride),
       expandedAllCandidates |->
         buildCandidates(fromCoord, toCoord, expandedStartDirs, expandedEndDirs, stride) ]

\* the stages with an unconstrained search after the strict ones
RoutingStagesThenFallback(plan, usedCount) ==
  << [cands |-> plan.baseCandidates, steps |-> ROUTING_BOUNDS_EXPAND_STEPS_FAST, strict |-> usedCount > 0],
     [cands |-> plan.baseCandidates, steps |-> ROUTING_BOUNDS_EXPAND_STEPS_FULL, strict |-> FALSE] >>

\* the calls of pickBestFallback / pickBestStrict in the order determinePath makes
\* them; the ?? chain stops at the first call that picks a path
RoutingStages(plan, usedCount) ==
  IF usedCount = 0
  THEN << [cands |-> plan.baseCandidates, steps |-> ROUTING_BOUNDS_EXPAND_STEPS_FAST, strict |-> FALSE] >>
  ELSE << [cands |-> plan.baseCandidates, steps |-> ROUTING_BOUNDS_EXPAND_STEPS_FAST, strict |-> TRUE],
          [cands |-> plan.expandedStartCandidates, steps |-> ROUTING_BOUNDS_EXPAND_STEPS_FAST, strict |-> TRUE],
          [cands |-> plan.expandedAllCandidates, steps |-> ROUTING_BOUNDS_EXPAND_STEPS_FAST, strict |-> TRUE],
          [cands |-> plan.baseCandidates, steps |-> ROUTING_BOUNDS_EXPAND_STEPS_FULL, strict |-> TRUE],
          [cands |-> plan.expandedStartCandidates, steps |-> ROUTING_BOUNDS_EXPAND_STEPS_FULL, strict |-> TRUE],
          [cands |-> plan.expandedAllCandidates, steps |-> ROUTING_BOUNDS_EXPAND_STEPS_FULL, strict |-> TRUE] >>

\* the candidates the deterministic self-loop is tried on
SelfLoopCandidates(plan) ==
  IF Len(plan.baseCandidates) > 0 THEN plan.baseCandidates ELSE plan.expandedStartCandidates

(***************************************************************************)
(* Grid layout: node placement, column widths, drawing coordinates.        *)
(* Graphs here have no subgraphs and single-letter node labels.            *)
(***************************************************************************)
Null == <<>>

paddingX == 5
paddingY == 5
boxBorderPadding == 1
LabelWidth == 1

\* targets of the edges leaving node, in edge order
RECURSIVE getChildren(_, _)
getChildren(edges, node) ==
  IF edges = <<>> THEN <<>>
  ELSE IF edges[1].from = node
       THEN <<edges[1].to>> \o getChildren(Tail(edges), node)
       ELSE getChildren(Tail(edges), node)

SeqToSet(q) == { q[i] : i \in 1..Len(q) }

\* root nodes: nodes not yet found when the ordered scan reaches them
RECURSIVE RootScan(_, _, _, _)
RootScan(n, edges, i, found) ==
  IF i > n THEN <<>>
  ELSE (IF i \notin found THEN <<i>> ELSE <<>>)
       \o RootScan(n, edges, i + 1, found \cup {i} \cup SeqToSet(getChildren(edges, i)))

\* layout state lay: grid (reserved cells), gridCoord (per node), highest (per level)
RECURSIVE reserveSpotInGrid(_, _, _, _)
reserveSpotInGrid(lay, graphDirection, node, requested) ==
  IF requested \in lay.grid
  THEN IF graphDirection = "LR"
       THEN reserveSpotInGrid(lay, graphDirection, node, [x |-> requested.x, y |-> requested.y + 4])
       ELSE reserveSpotInGrid(lay, graphDirection, node, [x |-> requested.x + 4, y |-> requested.y])
  ELSE [lay EXCEPT !.grid = @ \cup { [x |-> requested.x + dx, y |-> requested.y + dy] :
                                        dx \in 0..2, dy \in 0..2 },
                   !.gridCoord[node] = requested]

\* roots placed two cells apart
RECURSIVE PlaceRootsStepTwo(_, _, _, _)
PlaceRootsStepTwo(lay, graphDirection, layoutMargin, roots) ==
  IF roots = <<>> THEN lay
  ELSE LET h == Get(lay.highest, 0)
           requested == IF graphDirection = "LR"
                        THEN [x |-> 0 + layoutMargin, y |-> h + layoutMargin]
                        ELSE [x |-> h + layoutMargin, y |-> 0 + layoutMargin]
           l1 == reserveSpotInGrid(lay, graphDirection, roots[1], requested)
       IN PlaceRootsStepTwo([l1 EXCEPT !.highest = Put(@, 0, h + 2)],
                            graphDirection, layoutMargin, Tail(roots))

RECURSIVE PlaceRoots(_, _, _, _)
PlaceRoots(lay, graphDirection, layoutMargin, roots) ==
  IF roots = <<>> THEN lay
  ELSE LET h == Get(lay.highest, 0)
           requested == IF graphDirection = "LR"
                        THEN [x |-> 0 + layoutMargin, y |-> h + layoutMargin]
                        ELSE [x |-> h + layoutMargin, y |-> 0 + layoutMargin]
           l1 == reserveSpotInGrid(lay, graphDirection, roots[1], requested)
       IN PlaceRoots([l1 EXCEPT !.highest = Put(@, 0, h + 4)],
                     graphDirection, layoutMargin, Tail(roots))

RECURSIVE PlaceChildrenOf(_, _, _, _, _)
PlaceChildrenOf(lay, graphDirection, layoutMargin, childLevel, children) ==
  IF children = <<>> THEN lay
  ELSE IF lay.gridCoord[children[1]] # Null
  THEN PlaceChildrenOf(lay, graphDirection, layoutMargin, childLevel, Tail(children))
  ELSE LET highestPosition == Get(lay.highest, childLevel)
           requested == IF graphDirection = "LR"
                        THEN [x |-> childLevel + layoutMargin, y |-> highestPosition + layoutMargin]
                        ELSE [x |-> highestPosition + layoutMargin, y |-> childLevel + layoutMargin]
           l1 == reserveSpotInGrid(lay, graphDirection, children[1], requested)
       IN PlaceChildrenOf([l1 EXCEPT !.highest = Put(@, childLevel, highestPosition + 4)],
                          graphDirection, layoutMargin, childLevel, Tail(children))

RECURSIVE PlaceChildren(_, _, _, _, _, _)
PlaceChildren(lay, graphDirection, layoutMargin, n, edges, i) ==
  IF i > n THEN lay
  ELSE LET gc == lay.gridCoord[i]
           nodeLevel == IF graphDirection = "LR" THEN gc.x - layoutMargin ELSE gc.y - layoutMargin
       IN PlaceChildren(PlaceChildrenOf(lay, graphDirection, layoutMargin, nodeLevel + 4,
                                        getChildren(edges, i)),
                        graphDirection, layoutMargin, n, edges, i + 1)

\* the placement part of createMappingOnce: the grid coordinate of every node
PlaceNodes(n, edges, graphDirection, layoutMargin) ==
  LET lay0 == [grid |-> {}, gridCoord |-> [i \in 1..n |-> Null], highest |-> <<>>]
      lay1 == PlaceRoots(lay0, graphDirection, layoutMargin, RootScan(n, edges, 1, {}))
  IN PlaceChildren(lay1, graphDirection, layoutMargin, n, edges, 1).gridCoord

BaseMaxX(coords) == SetMax({0} \cup { coords[i].x + 2 : i \in DOMAIN coords })

BaseMaxY(coords) == SetMax({0} \cup { coords[i].y + 2 : i \in DOMAIN coords })

\* the context built by createMappingOnce, with the nodes' 3x3 blocks blocked
RoutingContext(coords) ==
  LET stride == BaseMaxX(coords) + ROUTING_MAX_BOUNDS_EXPAND_BY + 1
      height == BaseMaxY(coords) + ROUTING_MAX_BOUNDS_EXPAND_BY + 1
  IN [makeAStarContext(stride, height) EXCEPT
        !.blocked = { (coords[i].x + dx) + (coords[i].y + dy) * stride :
                        i \in DOMAIN coords, dx \in 0..2, dy \in 0..2 }]

MaxOf(f, k, v) == Put(f, k, Max(Get(f, k), v))

\* sizes: [columnWidth, rowHeight], both sparse maps
setColumnWidth(sizes, gc) ==
  LET colWidths == <<1, 2 * boxBorderPadding + LabelWidth, 1>>
      rowHeights == <<1, 1 + 2 * boxBorderPadding, 1>>
      cw1 == MaxOf(MaxOf(MaxOf(sizes.columnWidth, gc.x, colWidths[1]),
                         gc.x + 1, colWidths[2]), gc.x + 2, colWidths[3])
      rh1 == MaxOf(MaxOf(MaxOf(sizes.rowHeight, gc.y, rowHeights[1]),
                         gc.y + 1, rowHeights[2]), gc.y + 2, rowHeights[3])
  IN [ columnWidth |-> IF gc.x > 0 THEN MaxOf(cw1, gc.x - 1, paddingX) ELSE cw1,
       rowHeight   |-> IF gc.y > 0 THEN MaxOf(rh1, gc.y - 1, paddingY) ELSE rh1 ]

RECURSIVE SetColumnWidths(_, _, _)
SetColumnWidths(sizes, coords, i) ==
  IF i > Len(coords) THEN sizes
  ELSE SetColumnWidths(setColumnWidth(sizes, coords[i]), coords, i + 1)

\* every column and row a merged path passes through gets a default size
increaseGridSizeForPath(sizes, path) ==
  IF Len(path) = 0 THEN sizes
  ELSE LET xs == UNION { Min(path[i - 1].x, path[i].x)..Max(path[i - 1].x, path[i].x) :
                           i \in 2..Len(path) } \cup {path[1].x}
           ys == UNION { Min(path[i - 1].y, path[i].y)..Max(path[i - 1].y, path[i].y) :
                           i \in 2..Len(path) } \cup {path[1].y}
       IN [ columnWidth |-> [k \in DOMAIN sizes.columnWidth \cup xs |->
                               IF k \in DOMAIN sizes.columnWidth THEN sizes.columnWidth[k]
                               ELSE paddingX \div 2],
            rowHeight |-> [k \in DOMAIN sizes.rowHeight \cup ys |->
                               IF k \in DOMAIN sizes.rowHeight THEN sizes.rowHeight[k]
                               ELSE paddingY \div 2] ]

RECURSIVE SumBelow(_, _)
SumBelow(f, k) == IF k <= 0 THEN 0 ELSE Get(f, k - 1) + SumBelow(f, k - 1)

RECURSIVE SumAll(_, _)
SumAll(f, D) == IF D = {} THEN 0 ELSE LET k == CHOOSE j \in D : TRUE IN f[k] + SumAll(f, D \ {k})

gridToDrawingCoord(sizes, c) ==
  [ x |-> SumBelow(sizes.columnWidth, c.x) + (Get(sizes.columnWidth, c.x) \div 2),
    y |-> SumBelow(sizes.rowHeight, c.y) + (Get(sizes.rowHeight, c.y) \div 2) ]

\* canvas as its highest valid indices; mkCanvas(0, 0) is one cell
mkCanvasSize(x, y) == [maxX |-> x, maxY |-> y]

setCanvasSizeToGrid(canvas, sizes) ==
  [ maxX |-> Max(SumAll(sizes.columnWidth, DOMAIN sizes.columnWidth) - 1, canvas.maxX),
    maxY |-> Max(SumAll(sizes.rowHeight, DOMAIN sizes.rowHeight) - 1, canvas.maxY) ]

(***************************************************************************)
(* drawGraph, as far as it decides whether the render completes: a write   *)
(* canvas[x][y] throws when column x does not exist; a missing row grows.  *)
(***************************************************************************)
\* columns written by drawLine(canvas, from, to, 1, -1) on drawing coordinates
DrawLineColumns(from, to) ==
  IF from.x = to.x
  THEN (IF from.y < to.y
        THEN (IF from.y + 1 <= to.y - 1 THEN {from.x} ELSE {})
        ELSE (IF from.y - 1 >= to.y + 1 THEN {from.x} ELSE {}))
  ELSE IF from.y = to.y
  THEN (IF from.x < to.x THEN (from.x + 1)..(to.x - 1) ELSE (to.x + 1)..(from.x - 1))
  ELSE {}

drawPathThrows(sz, cv, path) ==
  \E i \in 2..Len(path) :
    LET prevDC == gridToDrawingCoord(sz, path[i - 1])
        nextDC == gridToDrawingCoord(sz, path[i])
    IN prevDC # nextDC /\ \E x \in DrawLineColumns(prevDC, nextDC) : x > cv.maxX

\* drawArrow skips paths of fewer than 2 points
drawArrowThrows(sz, cv, path) == Len(path) >= 2 /\ drawPathThrows(sz, cv, path)

drawGraph(nd, sz, cv, edges) ==
  [ nodesDrawn |-> { i \in DOMAIN nd : nd[i] # Null },
    status |-> IF \E k \in DOMAIN edges : drawArrowThrows(sz, cv, edges[k].path)
               THEN "threw" ELSE "completed" ]

(***************************************************************************)
(* Specification SpecRoute: createMapping as a state machine, one layout   *)
(* attempt per margin, one step per A* search of determinePath, then       *)
(* drawGraph.                                                              *)
(***************************************************************************)
LAYOUT_MARGIN_STEPS == <<0, 1, 2, 3, 4>>

MaxNodes == 2
MaxEdges == 3
MaxSelfLoopSize == 6

Pairs(n) == { [from |-> a, to |-> b] : a \in 1..n, b \in 1..n }

RECURSIVE SeqsUpTo(_, _)
SeqsUpTo(S, k) ==
  IF k = 0 THEN {<<>>}
  ELSE LET shorter == SeqsUpTo(S, k - 1)
       IN shorter \cup { Append(q, e) : q \in { r \in shorter : Len(r) = k - 1 }, e \in S }

\* the flowcharts routed here: up to MaxNodes nodes with up to MaxEdges edges of
\* any kind, and flowcharts of self-edges only while nodes + edges <= MaxSelfLoopSize
\* (a node runs out of ports at its fifth self-edge)
Graphs ==
  { g \in [n : 1..MaxNodes, edges : SeqsUpTo(Pairs(MaxNodes), MaxSelfLoopSize - 1) \ {<<>>},
           graphDirection : {"LR", "TD"}] :
      /\ \A k \in DOMAIN g.edges : g.edges[k].from <= g.n /\ g.edges[k].to <= g.n
      /\ \/ Len(g.edges) <= MaxEdges
         \/ /\ g.n + Len(g.edges) <= MaxSelfLoopSize
            /\ \A k \in DOMAIN g.edges : g.edges[k].from = g.edges[k].to }

RouteInit ==
  /\ pc = "layout"
  /\ graph \in Graphs
  /\ marginIdx = 1
  /\ attempts = <<>>
  /\ gridCoords = <<>>
  /\ ctx = makeAStarContext(1, 1)
  /\ segmentUsage = EmptyUsage
  /\ usedPoints = <<>>
  /\ edgeOut = <<>>
  /\ lastPre = [usage |-> EmptyUsage, usedPoints |-> <<>>]
  /\ cursor = NoCursor
  /\ gridSizes = [columnWidth |-> <<>>, rowHeight |-> <<>>]
  /\ nodeDrawing = [i \in 1..graph.n |-> Null]
  /\ graphCanvas = mkCanvasSize(0, 0)
  /\ drawResult = [nodesDrawn |-> {}, status |-> "none"]
  /\ query = <<>> /\ result = <<>> /\ nSearch = 0

\* the attempt that starts on the usage table and the used points of the last
BeginAttemptKeepUsage ==
  /\ pc = "layout"
  /\ LET layoutMargin == LAYOUT_MARGIN_STEPS[marginIdx]
         placed == PlaceNodes(graph.n, graph.edges, graph.graphDirection, layoutMargin)
     IN /\ gridCoords' = placed
        /\ ctx' = RoutingContext(placed)
        /\ gridSizes' = SetColumnWidths([columnWidth |-> <<>>, rowHeight |-> <<>>], placed, 1)
  /\ edgeOut' = <<>>
  /\ lastPre' = [usage |-> EmptyUsage, usedPoints |-> <<>>]
  /\ nodeDrawing' = [i \in 1..graph.n |-> Null]
  /\ graphCanvas' = mkCanvasSize(0, 0)
  /\ pc' = "routing"
  /\ UNCHANGED <<graph, marginIdx, attempts, cursor, drawResult, pathVars, segmentUsage, usedPoints>>

\* resetLayoutState, then createMappingOnce up to the start of the edge loop
BeginAttempt ==
  /\ pc = "layout"
  /\ LET layoutMargin == LAYOUT_MARGIN_STEPS[marginIdx]
         placed == PlaceNodes(graph.n, graph.edges, graph.graphDirection, layoutMargin)
     IN /\ gridCoords' = placed
        /\ ctx' = RoutingContext(placed)
        /\ gridSizes' = SetColumnWidths([columnWidth |-> <<>>, rowHeight |-> <<>>], placed, 1)
  /\ segmentUsage' = EmptyUsage
  /\ usedPoints' = <<>>
  /\ edgeOut' = <<>>
  /\ lastPre' = [usage |-> EmptyUsage, usedPoints |-> <<>>]
  /\ nodeDrawing' = [i \in 1..graph.n |-> Null]
  /\ graphCanvas' = mkCanvasSize(0, 0)
  /\ pc' = "routing"
  /\ UNCHANGED <<graph, marginIdx, attempts, cursor, drawResult, pathVars>>

\* the end of determinePath for the current edge, and increaseGridSizeForPath
\* (determineLabelLine returns at once: the edges carry no text)
EdgeRouted(edge, startDir, endDir, pathIdx, path, stage, clearance) ==
  /\ edgeOut' = Append(edgeOut, [ from |-> edge.from, to |-> edge.to,
                                  startDir |-> startDir, endDir |-> endDir,
                                  path |-> path, pathIdx |-> pathIdx,
                                  stage |-> stage, clearance |-> clearance ])
  /\ segmentUsage' = recordPathSegments(segmentUsage, edge.from, edge.to, pathIdx)
  /\ usedPoints' = recordPathPoints(usedPoints, ctx, pathIdx)
  /\ lastPre' = [usage |-> segmentUsage, usedPoints |-> usedPoints]
  /\ gridSizes' = increaseGridSizeForPath(gridSizes, path)
  /\ cursor' = NoCursor
  /\ pc' = "routing"

CurrentEdge == graph.edges[Len(edgeOut) + 1]

CurrentPlan == EdgePlan(graph.graphDirection, gridCoords, CurrentEdge, ctx.stride)

\* determinePath from its entry to the end of the self-loop branch: a self-edge
\* with a valid deterministic loop is routed here, every other edge goes on to
\* the A* stages
determinePathBegin ==
  /\ pc = "routing"
  /\ Len(edgeOut) < Len(graph.edges)
  /\ LET plan == CurrentPlan
         loop == IF plan.isSelfLoop
                 THEN SelfLoopScan(ctx, segmentUsage, usedPoints, CurrentEdge.from,
                                   CurrentEdge.to, SelfLoopCandidates(plan))
                 ELSE [ok |-> FALSE, candidate |-> <<>>, clearance |-> 0, points |-> <<>>]
     IN IF loop.ok
        THEN EdgeRouted(CurrentEdge, loop.candidate.startDir, loop.candidate.endDir,
                        [i \in 1..Len(loop.points) |-> gridCoordToIdx(ctx.stride, loop.points[i])],
                        mergePath(loop.points), "selfloop", loop.clearance)
        ELSE /\ cursor' = [k |-> 1, j |-> 1, i |-> 1, best |-> NoPick]
             /\ pc' = "searching"
             /\ UNCHANGED <<edgeOut, segmentUsage, usedPoints, lastPre, gridSizes>>
  /\ UNCHANGED <<ctx, graph, marginIdx, attempts, gridCoords, nodeDrawing, graphCanvas,
                 drawResult, pathVars>>

\* one iteration of the candidate loop of pickBestFallback / pickBestStrict (one
\* search), followed by whatever ends with it: the expansion step, the stage,
\* the ?? chain and determinePath itself
pickBestStep ==
  /\ pc = "searching"
  /\ \E plan \in {CurrentPlan} :
     \E stages \in {RoutingStages(plan, segmentUsage.usedCount)} :
     \E stage \in {stages[cursor.k]} :
     LET edge == CurrentEdge
         env == [ isSelfLoop |-> plan.isSelfLoop, strict |-> stage.strict,
                  usage |-> segmentUsage, usedPoints |-> usedPoints,
                  edgeFromId |-> edge.from, edgeToId |-> edge.to,
                  baseMaxX |-> BaseMaxX(gridCoords), baseMaxY |-> BaseMaxY(gridCoords) ]
         bounds == computeSearchBounds(ctx, env.baseMaxX, env.baseMaxY, stage.steps[cursor.j])
     IN \E acc \in { IF cursor.i <= Len(stage.cands)
                      THEN PickCandidate([ctx |-> ctx, best |-> cursor.best], env,
                                         stage.cands[cursor.i], bounds)
                      ELSE [ctx |-> ctx, best |-> cursor.best] } :
        /\ ctx' = acc.ctx
        /\ IF cursor.i < Len(stage.cands)
           THEN /\ cursor' = [cursor EXCEPT !.i = @ + 1, !.best = acc.best]
                /\ UNCHANGED <<pc, edgeOut, segmentUsage, usedPoints, lastPre, gridSizes>>
           ELSE IF acc.best.ok
           THEN LET merged == mergePathIdx(acc.best.pathIdx)
                IN EdgeRouted(edge, acc.best.candidate.startDir, acc.best.candidate.endDir,
                              acc.best.pathIdx,
                              [i \in 1..Len(merged) |-> idxToGridCoord(ctx.stride, merged[i])],
                              IF stage.strict THEN "strict" ELSE "fallback", 0)
           ELSE IF cursor.j < Len(stage.steps)
           THEN /\ cursor' = [cursor EXCEPT !.j = @ + 1, !.i = 1, !.best = NoPick]
                /\ UNCHANGED <<pc, edgeOut, segmentUsage, usedPoints, lastPre, gridSizes>>
           ELSE IF cursor.k < Len(stages)
           THEN /\ cursor' = [k |-> cursor.k + 1, j |-> 1, i |-> 1, best |-> NoPick]
                /\ UNCHANGED <<pc, edgeOut, segmentUsage, usedPoints, lastPre, gridSizes>>
           ELSE EdgeRouted(edge, plan.dirs[1], plan.dirs[2], <<>>, <<>>, "none", 0)
  /\ UNCHANGED <<graph, marginIdx, attempts, gridCoords, nodeDrawing, graphCanvas,
                 drawResult, pathVars>>

AllRouted == pc = "routing" /\ Len(edgeOut) = Len(graph.edges)

\* what an attempt leaves behind: its margin and the length of every edge's path
AttemptRecord ==
  [ margin |-> LAYOUT_MARGIN_STEPS[marginIdx],
    pathLens |-> [k \in DOMAIN edgeOut |-> Len(edgeOut[k].path)] ]

\* mutant of hasUnroutableEdge: an attempt is never found to have failed
hasUnroutableEdgeNever == FALSE

hasUnroutableEdge == \E k \in DOMAIN edgeOut : Len(edgeOut[k].path) < 2

\* the loop of createMapping going on with the margin it has just tried
RetryNextMarginSame ==
  /\ AllRouted
  /\ hasUnroutableEdge
  /\ attempts' = Append(attempts, AttemptRecord)
  /\ pc' = "layout"
  /\ UNCHANGED <<graph, marginIdx, ctx, gridCoords, segmentUsage, usedPoints, edgeOut, lastPre, cursor, gridSizes,
                 nodeDrawing, graphCanvas, drawResult, pathVars>>

\* createMappingOnce returns false and the loop of createMapping goes on
RetryNextMargin ==
  /\ AllRouted
  /\ hasUnroutableEdge
  /\ marginIdx < Len(LAYOUT_MARGIN_STEPS)
  /\ attempts' = Append(attempts, AttemptRecord)
  /\ marginIdx' = marginIdx + 1
  /\ pc' = "layout"
  /\ UNCHANGED <<graph, ctx, gridCoords, segmentUsage, usedPoints, edgeOut, lastPre, cursor, gridSizes,
                 nodeDrawing, graphCanvas, drawResult, pathVars>>

\* createMappingOnce returns false for the last margin: createMapping returns
GiveUp ==
  /\ AllRouted
  /\ hasUnroutableEdge
  /\ marginIdx = Len(LAYOUT_MARGIN_STEPS)
  /\ attempts' = Append(attempts, AttemptRecord)
  /\ pc' = "mapped"
  /\ UNCHANGED <<graph, marginIdx, ctx, gridCoords, segmentUsage, usedPoints, edgeOut, lastPre, cursor, gridSizes,
                 nodeDrawing, graphCanvas, drawResult, pathVars>>

\* createMappingOnce returns true: drawing coordinates, boxes and graphCanvas size are set
FinishMapping ==
  /\ AllRouted
  /\ ~hasUnroutableEdge
  /\ nodeDrawing' = [i \in 1..graph.n |->
                       [drawingCoord |-> gridToDrawingCoord(gridSizes, gridCoords[i]), drawing |-> "box"]]
  /\ graphCanvas' = setCanvasSizeToGrid(graphCanvas, gridSizes)
  /\ attempts' = Append(attempts, AttemptRecord)
  /\ pc' = "mapped"
  /\ UNCHANGED <<graph, marginIdx, ctx, gridCoords, segmentUsage, usedPoints, edgeOut, lastPre, cursor, gridSizes,
                 drawResult, pathVars>>

DrawGraph ==
  /\ pc = "mapped"
  /\ drawResult' = drawGraph(nodeDrawing, gridSizes, graphCanvas, edgeOut)
  /\ pc' = "drawn"
  /\ UNCHANGED <<graph, marginIdx, ctx, gridCoords, segmentUsage, usedPoints, edgeOut, lastPre, cursor, gridSizes,
                 nodeDrawing, graphCanvas, attempts, pathVars>>

RouteNext ==
  \/ BeginAttempt
  \/ determinePathBegin
  \/ pickBestStep
  \/ RetryNextMargin
  \/ GiveUp
  \/ FinishMapping
  \/ DrawGraph

SpecRoute == RouteInit /\ [][RouteNext]_vars

(***************************************************************************)
(* Properties of routing and layout retry, over SpecRoute                  *)
(***************************************************************************)
\* the unit segments of a raw path, by position
SegmentAt(pathIdx, i) == segmentKey(pathIdx[i], pathIdx[i + 1])

FourWay(mask) ==
  /\ HasBit(mask, CONNECT_LEFT) /\ HasBit(mask, CONNECT_RIGHT)
  /\ HasBit(mask, CONNECT_UP) /\ HasBit(mask, CONNECT_DOWN)

\* the non-blocked cells whose mask in up has all four connection bits
FourWayCells(up) == { cell \in DOMAIN up : cell \notin ctx.blocked /\ FourWay(up[cell]) }

AllRoutedSoFar == \A k \in DOMAIN edgeOut : Len(edgeOut[k].path) >= 2

\* C1: two routed edges share a unit segment only as the first segment of both
\* (same source node) or as the last segment of both (same target node).
C1_SharedOnlyAtEnds ==
  \A a, b \in DOMAIN edgeOut :
    a < b =>
      LET pa == edgeOut[a].pathIdx
          pb == edgeOut[b].pathIdx
      IN \A i \in 1..(Len(pa) - 1), j \in 1..(Len(pb) - 1) :
           SegmentAt(pa, i) = SegmentAt(pb, j) =>
             \/ (edgeOut[a].from = edgeOut[b].from /\ i = 1 /\ j = 1)
             \/ (edgeOut[a].to = edgeOut[b].to /\ i = Len(pa) - 1 /\ j = Len(pb) - 1)

\* an attempt has finished routing and two of its edges do share a segment
C1_Witness ==
  /\ AllRouted
  /\ \E a, b \in DOMAIN edgeOut :
       /\ a < b
       /\ edgeOut[a].stage = "fallback" /\ edgeOut[b].stage = "strict"
       /\ \E i \in 1..(Len(edgeOut[a].pathIdx) - 1), j \in 1..(Len(edgeOut[b].pathIdx) - 1) :
            SegmentAt(edgeOut[a].pathIdx, i) = SegmentAt(edgeOut[b].pathIdx, j)

\* C2: while every edge routed so far in the attempt has a path, no non-blocked
\* cell has a usedPoints mask with Left, Right, Up and Down all set.
C2_NoFourWayCell == AllRoutedSoFar => FourWayCells(usedPoints) = {}

\* C5: when all five margins ended with an unroutable edge, createMapping still
\* leaves every node with a drawing coordinate and a box and the canvas sized to
\* the grid, and drawGraph completes with every node drawn.
C5_ExhaustedStillRenders ==
  (Len(attempts) = Len(LAYOUT_MARGIN_STEPS)
   /\ \E k \in DOMAIN Last(attempts).pathLens : Last(attempts).pathLens[k] < 2)
  => /\ pc \in {"mapped", "drawn"} =>
          /\ \A i \in 1..graph.n : nodeDrawing[i] # Null
          /\ graphCanvas = setCanvasSizeToGrid(mkCanvasSize(0, 0), gridSizes)
     /\ pc = "drawn" =>
          /\ drawResult.status = "completed"
          /\ drawResult.nodesDrawn = 1..graph.n

\* C6: the attempts use the margins 0, 1, 2, 3, 4 in this order, each attempt is
\* complete (every edge went through routing), an attempt is followed by another
\* only if it left an edge with a path shorter than 2, and createMapping is over
\* exactly when an attempt routed every edge or the five margins are used up.
C6_MarginRetry ==
  LET failed(a) == \E k \in DOMAIN attempts[a].pathLens : attempts[a].pathLens[k] < 2
  IN /\ Len(attempts) <= Len(LAYOUT_MARGIN_STEPS)
     /\ \A a \in DOMAIN attempts :
          /\ attempts[a].margin = a - 1
          /\ Len(attempts[a].pathLens) = Len(graph.edges)
          /\ a < Len(attempts) => failed(a)
     /\ pc \in {"layout", "routing", "searching"} =>
          /\ \A a \in DOMAIN attempts : failed(a)
          /\ Len(attempts) < Len(LAYOUT_MARGIN_STEPS)
          /\ LAYOUT_MARGIN_STEPS[marginIdx] = Len(attempts)
     /\ pc \in {"mapped", "drawn"} =>
          /\ attempts # <<>>
          /\ ~failed(Len(attempts)) \/ Len(attempts) = Len(LAYOUT_MARGIN_STEPS)

\* the attempt for margin 0 failed, the one for margin 1 routed every edge
C6_Witness ==
  /\ pc = "mapped"
  /\ Len(attempts) = 2
  /\ \A k \in DOMAIN attempts[2].pathLens : attempts[2].pathLens[k] >= 2

\* the last routed edge is a self-edge routed by the deterministic excursion
SelfLoopAccepted == edgeOut # <<>> /\ Last(edgeOut).stage = "selfloop"

\* what holds of every accepted excursion: at least 4 merged points, every cell
\* in the grid, every cell between the two ports non-blocked, and a clearance in
\* 1..MaxClearance below which no excursion of the same port pair is valid
SelfLoopShape ==
  SelfLoopAccepted =>
    LET e == Last(edgeOut)
        p == e.pathIdx
        cands == SelfLoopCandidates(EdgePlan(graph.graphDirection, gridCoords,
                                             [from |-> e.from, to |-> e.to], ctx.stride))
    IN /\ Len(e.path) >= 4
       /\ \A i \in DOMAIN p : p[i] \in 0..(ctx.stride * ctx.height - 1)
       /\ \A i \in 2..(Len(p) - 1) : p[i] \notin ctx.blocked
       /\ e.clearance \in 1..MaxClearance
       /\ \E c \in DOMAIN cands :
            /\ cands[c].startDir = e.startDir /\ cands[c].endDir = e.endDir
            /\ \A cl \in 1..(e.clearance - 1) :
                 buildDeterministicSelfLoopPath(ctx, lastPre.usage, lastPre.usedPoints,
                                                e.from, e.to, cands[c], cl) = <<>>

\* C9: an accepted self-edge excursion has at least 4 merged points, forms no
\* four-way crossing together with the earlier usedPoints masks, shares segments
\* only by the sharing rules, is the first valid clearance of its port pair, and
\* its cells between the ports are non-blocked and inside the grid.
C9_SelfLoopAccepted ==
  /\ SelfLoopShape
  /\ SelfLoopAccepted => FourWayCells(usedPoints) \subseteq FourWayCells(lastPre.usedPoints)
  /\ SelfLoopAccepted =>
       \A a \in 1..(Len(edgeOut) - 1) :
         LET pa == edgeOut[a].pathIdx
             pb == Last(edgeOut).pathIdx
         IN \A i \in 1..(Len(pa) - 1), j \in 1..(Len(pb) - 1) :
              SegmentAt(pa, i) = SegmentAt(pb, j) =>
                \/ (edgeOut[a].from = Last(edgeOut).from /\ i = 1 /\ j = 1)
                \/ (edgeOut[a].to = Last(edgeOut).to /\ i = Len(pa) - 1 /\ j = Len(pb) - 1)

(***************************************************************************)
(* Properties of determinePath, recordPathSegments and the reset between   *)
(* layout attempts, over SpecRoute                                         *)
(***************************************************************************)
\* the six calls in the order stated for a non-empty usage table: candidates,
\* bounds ladder; each of them strict
StatedStages(plan) ==
  << [cands |-> plan.baseCandidates, steps |-> ROUTING_BOUNDS_EXPAND_STEPS_FAST, strict |-> TRUE],
     [cands |-> plan.expandedStartCandidates, steps |-> ROUTING_BOUNDS_EXPAND_STEPS_FAST, strict |-> TRUE],
     [cands |-> plan.expandedAllCandidates, steps |-> ROUTING_BOUNDS_EXPAND_STEPS_FAST, strict |-> TRUE],
     [cands |-> plan.baseCandidates, steps |-> ROUTING_BOUNDS_EXPAND_STEPS_FULL, strict |-> TRUE],
     [cands |-> plan.expandedStartCandidates, steps |-> ROUTING_BOUNDS_EXPAND_STEPS_FULL, strict |-> TRUE],
     [cands |-> plan.expandedAllCandidates, steps |-> ROUTING_BOUNDS_EXPAND_STEPS_FULL, strict |-> TRUE] >>

\* a search of the A* stages is about to run for a non-self edge on a
\* non-empty usage table
SearchingNonSelf ==
  /\ pc = "searching"
  /\ CurrentEdge.from # CurrentEdge.to
  /\ segmentUsage.usedCount > 0

\* the stage the cursor stands in has run its last search without a pick
\* before this one
AtLastSearchOfStage(stage) ==
  /\ cursor.j = Len(stage.steps)
  /\ cursor.i >= Len(stage.cands)

C18_Step ==
  SearchingNonSelf =>
    LET stages == RoutingStages(CurrentPlan, segmentUsage.usedCount)
        stage == stages[cursor.k]
    IN /\ stages = StatedStages(CurrentPlan)
       /\ cursor.k \in 1..6
       /\ stage.strict
       /\ pc' = "searching" =>
            \/ cursor'.k = cursor.k
            \/ /\ cursor'.k = cursor.k + 1 /\ cursor'.j = 1 /\ cursor'.i = 1
               /\ AtLastSearchOfStage(stage)
       /\ pc' # "searching" =>
            /\ Len(edgeOut') = Len(edgeOut) + 1
            /\ LET out == edgeOut'[Len(edgeOut')]
               IN \/ /\ out.stage = "strict" /\ Len(out.path) >= 2
                     /\ cursor.i >= Len(stage.cands)
                  \/ /\ out.stage = "none" /\ out.path = <<>>
                     /\ cursor.k = 6 /\ AtLastSearchOfStage(stage)

C18_WitnessEmpty ==
  \E k \in DOMAIN edgeOut :
    edgeOut[k].from # edgeOut[k].to /\ edgeOut[k].path = <<>> /\ edgeOut[k].stage = "none"

\* the raw paths recorded in the running attempt
RecordedEdges == { k \in DOMAIN edgeOut : Len(edgeOut[k].pathIdx) >= 2 }

SegmentsOf(pathIdx) == { SegmentAt(pathIdx, i) : i \in 1..(Len(pathIdx) - 1) }

FirstSegment(k) == SegmentAt(edgeOut[k].pathIdx, 1)

LastSegment(k) == SegmentAt(edgeOut[k].pathIdx, Len(edgeOut[k].pathIdx) - 1)

MiddleSegmentsOf(pathIdx) == { SegmentAt(pathIdx, i) : i \in 2..(Len(pathIdx) - 2) }

\* C19: after every routed edge the usage table marks as used exactly the
\* unit segments of the raw paths recorded so far; the first segment of each
\* path carries the source id of its edge, the last the target id; the
\* segments that lie between the first and the last of some path are exactly
\* those with usedAsMiddle; a segment has startSourceMulti (endTargetMulti)
\* exactly when two different sources (targets) used it as first (last)
\* segment; usedCount is the number of segments marked used.
C19_UsageMatchesPaths ==
  pc \in {"routing", "searching"} =>
    /\ segmentUsage.segmentUsed = UNION { SegmentsOf(edgeOut[k].pathIdx) : k \in RecordedEdges }
    /\ segmentUsage.usedCount = Cardinality(segmentUsage.segmentUsed)
    /\ \A k \in RecordedEdges :
         /\ Get(segmentUsage.startSource, FirstSegment(k)) = edgeOut[k].from
         /\ Get(segmentUsage.endTarget, LastSegment(k)) = edgeOut[k].to
    /\ segmentUsage.usedAsMiddle
         = UNION { MiddleSegmentsOf(edgeOut[k].pathIdx) : k \in RecordedEdges }
    /\ segmentUsage.startSourceMulti
         = { key \in segmentUsage.segmentUsed :
               Cardinality({ edgeOut[k].from : k \in { e \in RecordedEdges : FirstSegment(e) = key } }) >= 2 }
    /\ segmentUsage.endTargetMulti
         = { key \in segmentUsage.segmentUsed :
               Cardinality({ edgeOut[k].to : k \in { e \in RecordedEdges : LastSegment(e) = key } }) >= 2 }

\* two recorded paths with the same first segment, and a segment used as a
\* middle one
C19_Witness ==
  /\ pc = "routing"
  /\ \E a \in RecordedEdges, b \in RecordedEdges : a # b /\ FirstSegment(a) = FirstSegment(b)
  /\ segmentUsage.usedAsMiddle # {}
  /\ segmentUsage.usedCount >= 4

\* what an attempt starts from, given the flowchart and the margin alone
CleanStart(g, layoutMargin) ==
  LET placed == PlaceNodes(g.n, g.edges, g.graphDirection, layoutMargin)
  IN [ gridCoords |-> placed,
       ctx |-> RoutingContext(placed),
       gridSizes |-> SetColumnWidths([columnWidth |-> <<>>, rowHeight |-> <<>>], placed, 1),
       segmentUsage |-> EmptyUsage,
       usedPoints |-> <<>>,
       edgeOut |-> <<>>,
       nodeDrawing |-> [i \in 1..g.n |-> Null],
       graphCanvas |-> mkCanvasSize(0, 0) ]

TouchedCells(c) == { i \in DOMAIN c.costStamp : c.costStamp[i] = c.stamp }

\* the cursor stands on a search of a stage: the candidate index is in the
\* stage's candidate list, the step index in its expansion ladder
CursorInRange ==
  pc = "searching" =>
    LET stages == RoutingStages(CurrentPlan, segmentUsage.usedCount)
    IN /\ cursor.k \in 1..Len(stages)
       /\ cursor.j \in 1..Len(stages[cursor.k].steps)
       /\ cursor.i \in 1..Max(1, Len(stages[cursor.k].cands))

\* a self-edge is tried with at most two port pairs and twelve clearances
SelfLoopTrialsBounded ==
  (pc = "routing" /\ Len(edgeOut) < Len(graph.edges) /\ CurrentPlan.isSelfLoop) =>
    Len(SelfLoopCandidates(CurrentPlan)) * MaxClearance <= 24

AttemptsBounded ==
  /\ marginIdx \in 1..5
  /\ Len(attempts) <= 5
  /\ Len(attempts) = (IF pc \in {"mapped", "drawn"} THEN marginIdx ELSE marginIdx - 1)
  /\ Len(edgeOut) <= Len(graph.edges)

\* where a run stands: attempt, phase, edge, and the search of the edge
PhaseOf(p) == IF p = "layout" THEN 0 ELSE IF p \in {"routing", "searching"} THEN 1
              ELSE IF p = "mapped" THEN 2 ELSE 3

Measure(m, p, out, cur) ==
  << m, PhaseOf(p), Len(out) >> \o
  (IF p = "searching" THEN << 1, cur.k, cur.j, cur.i >> ELSE << 0, 0, 0, 0 >>)

\* a comes before b in the lexicographic order of tuples of the same length
LexLess(a, b) ==
  \E n \in 1..Len(a) : a[n] < b[n] /\ \A l \in 1..(n - 1) : a[l] = b[l]

\* one step: a search writes only cells inside its bounds, which lie in the
\* grid, and the measure goes up
StepAdvances ==
  /\ pc = "searching" =>
       LET stage == RoutingStages(CurrentPlan, segmentUsage.usedCount)[cursor.k]
           bounds == computeSearchBounds(ctx, BaseMaxX(gridCoords), BaseMaxY(gridCoords),
                                         stage.steps[cursor.j])
       IN /\ bounds.maxX < ctx.stride /\ bounds.maxY < ctx.height
          /\ ctx'.stamp # ctx.stamp =>
               \A i \in TouchedCells(ctx') :
                  /\ i % ctx.stride <= bounds.maxX
                  /\ i \div ctx.stride <= bounds.maxY
  /\ LexLess(Measure(marginIdx, pc, edgeOut, cursor), Measure(marginIdx', pc', edgeOut', cursor'))

\* C22: routing always terminates.  Every search writes only cells inside its
\* bounds, which lie inside the grid; the searches of an edge go through the
\* candidates and bound steps of each stage in order and never back; a
\* self-edge is tried with at most 24 deterministic constructions;
\* createMapping makes at most five layout attempts; and every step moves the
\* run on in the order (attempt, phase, edge, stage, bound step, candidate),
\* so that no run has more steps than that order has places.
C22_RoutingTerminates ==
  /\ [](CursorInRange /\ SelfLoopTrialsBounded /\ AttemptsBounded)
  /\ [][StepAdvances]_vars

\* the fifth attempt has failed and the run has ended all the same
C22_Witness ==
  /\ pc = "drawn" /\ Len(attempts) = 5
  /\ \E k \in DOMAIN edgeOut : edgeOut[k].stage = "none"

(***************************************************************************)
(* Specification SpecPath: getPath on small grids.  The callers pass       *)
(* source and target inside the search bounds (computeSearchBounds never   *)
(* shrinks below the node area), and distinct (equal ports are skipped).   *)
(***************************************************************************)
PathStride == 4
PathHeight == 3
MaxBlocked == 3
MaxSearches == 1

PathCells == 0..(PathStride * PathHeight - 1)

RouteIdle ==
  /\ graph = [n |-> 0, edges |-> <<>>, graphDirection |-> "LR"]
  /\ marginIdx = 0 /\ attempts = <<>> /\ gridCoords = <<>>
  /\ segmentUsage = <<>> /\ usedPoints = <<>> /\ edgeOut = <<>> /\ lastPre = <<>>
  /\ cursor = <<>>
  /\ gridSizes = <<>> /\ nodeDrawing = <<>> /\ graphCanvas = <<>> /\ drawResult = <<>>

PathInit ==
  /\ pc = "path"
  /\ RouteIdle
  /\ \E B \in SUBSET PathCells :
       /\ Cardinality(B) <= MaxBlocked
       /\ ctx = [makeAStarContext(PathStride, PathHeight) EXCEPT !.blocked = B]
  /\ query = [fromIdx |-> 0, toIdx |-> 0, maxX |-> 0, maxY |-> 0]
  /\ result = [found |-> FALSE, path |-> <<>>]
  /\ nSearch = 0

RunGetPath ==
  /\ pc = "path"
  /\ nSearch < MaxSearches
  /\ \E maxX \in 0..(PathStride - 1), maxY \in 0..(PathHeight - 1) :
     \E fromIdx \in PathCells, toIdx \in PathCells :
       /\ fromIdx # toIdx
       /\ fromIdx % PathStride <= maxX /\ fromIdx \div PathStride <= maxY
       /\ toIdx % PathStride <= maxX /\ toIdx \div PathStride <= maxY
       /\ LET r == getPath(ctx, fromIdx, toIdx, maxX, maxY)
          IN /\ ctx' = r.ctx
             /\ result' = [found |-> r.found, path |-> r.path]
             /\ query' = [fromIdx |-> fromIdx, toIdx |-> toIdx, maxX |-> maxX, maxY |-> maxY]
  /\ nSearch' = nSearch + 1
  /\ UNCHANGED <<pc, routeVars>>

SpecPath == PathInit /\ [][RunGetPath]_vars

\* cells reachable from the source by admissible steps (independent of A*)
RECURSIVE ReachFrom(_, _, _, _, _, _)
ReachFrom(R, blocked, toIdx, stride, maxX, maxY) ==
  LET step == { n \in 0..(stride * (maxY + 1) - 1) :
                  /\ n % stride <= maxX
                  /\ n \notin R
                  /\ (n \notin blocked \/ n = toIdx)
                  /\ \E m \in R : /\ m # toIdx
                                  /\ \/ (n = m + 1 /\ m % stride < maxX)
                                     \/ (n = m - 1 /\ m % stride > 0)
                                     \/ n = m + stride
                                     \/ n = m - stride }
  IN IF step = {} THEN R ELSE ReachFrom(R \cup step, blocked, toIdx, stride, maxX, maxY)

Adjacent4(a, b, stride) ==
  \/ (b = a + 1 /\ a % stride # stride - 1)
  \/ (b = a - 1 /\ a % stride # 0)
  \/ b = a + stride
  \/ b = a - stride

ValidPath(path, blocked, q, stride) ==
  /\ Len(path) >= 1
  /\ path[1] = q.fromIdx
  /\ path[Len(path)] = q.toIdx
  /\ \A i \in 2..Len(path) :
       /\ Adjacent4(path[i - 1], path[i], stride)
       /\ path[i] >= 0
       /\ path[i] % stride <= q.maxX
       /\ path[i] \div stride <= q.maxY
       /\ (path[i] \in blocked => path[i] = q.toIdx)

\* C8: getPath returns null only when no admissible path exists, and
\* otherwise a path from source to target whose consecutive cells are
\* 4-neighbours, whose entered cells lie in the search bounds, and whose
\* entered cells are not blocked except for the exact target.
C8_GetPathCorrect ==
  (pc = "path" /\ nSearch > 0) =>
    IF result.found
    THEN ValidPath(result.path, ctx.blocked, query, ctx.stride)
    ELSE query.toIdx \notin ReachFrom({query.fromIdx}, ctx.blocked, query.toIdx,
                                      ctx.stride, query.maxX, query.maxY)

C8_Witness ==
  /\ pc = "path" /\ nSearch > 0 /\ result.found
  /\ Len(result.path) >= 5
  /\ ctx.blocked # {}
  /\ mergePathLengthIdx(result.path) >= 3

C8_WitnessNull ==
  /\ pc = "path" /\ nSearch > 0 /\ ~result.found /\ ctx.blocked # {}

(***************************************************************************)
(* Specification SpecStrict: one edge routed by getPath on an empty usage  *)
(* table and recorded, then getPathStrict for a second edge under the      *)
(* constraints the first one left.  The second edge may share its source   *)
(* (id 1) or its target (id 2) with the first or have its own (id 3).      *)
(***************************************************************************)
StrictStride == 3
StrictHeight == 3
StrictMaxBlocked == 1

StrictCells == 0..(StrictStride * StrictHeight - 1)

StrictInit ==
  /\ pc = "strict"
  /\ RouteIdle
  /\ \E B \in SUBSET StrictCells :
       /\ Cardinality(B) <= StrictMaxBlocked
       /\ ctx = [makeAStarContext(StrictStride, StrictHeight) EXCEPT !.blocked = B]
  /\ query = [fromIdx |-> 0, toIdx |-> 0, maxX |-> 0, maxY |-> 0, cons |-> NoConstraints]
  /\ result = [found |-> FALSE, path |-> <<>>]
  /\ nSearch = 0

\* the first edge of a layout attempt: found by getPath, then recorded
RouteFirstEdge ==
  /\ pc = "strict"
  /\ nSearch = 0
  /\ \E fromIdx \in StrictCells, toIdx \in StrictCells :
       /\ fromIdx # toIdx
       /\ \E r \in {getPath(ctx, fromIdx, toIdx, StrictStride - 1, StrictHeight - 1)} :
            /\ r.found
            /\ ctx' = r.ctx
            /\ result' = [found |-> r.found, path |-> r.path]
            /\ query' = [fromIdx |-> fromIdx, toIdx |-> toIdx,
                         maxX |-> StrictStride - 1, maxY |-> StrictHeight - 1,
                         cons |-> NoConstraints]
            /\ segmentUsage' = recordPathSegments(EmptyUsage, 1, 2, r.path)
            /\ usedPoints' = recordPathPoints(<<>>, ctx, r.path)
  /\ nSearch' = 1
  /\ UNCHANGED <<pc, graph, marginIdx, attempts, gridCoords, edgeOut, lastPre, cursor,
                 gridSizes, nodeDrawing, graphCanvas, drawResult>>

\* one strict search of a later edge
RunGetPathStrict ==
  /\ pc = "strict"
  /\ nSearch = 1
  /\ \E fromIdx \in StrictCells, toIdx \in StrictCells, edgeFromId \in {1, 3}, edgeToId \in {2, 3} :
       /\ fromIdx # toIdx
       /\ \E cons \in {[ strict |-> TRUE, usedPoints |-> usedPoints, segmentUsage |-> segmentUsage,
                         routeFromIdx |-> fromIdx, routeToIdx |-> toIdx,
                         edgeFromId |-> edgeFromId, edgeToId |-> edgeToId ]} :
          \E r \in {getPathStrict(ctx, fromIdx, toIdx, StrictStride - 1, StrictHeight - 1, cons)} :
            /\ ctx' = r.ctx
            /\ result' = [found |-> r.found, path |-> r.path]
            /\ query' = [fromIdx |-> fromIdx, toIdx |-> toIdx,
                         maxX |-> StrictStride - 1, maxY |-> StrictHeight - 1, cons |-> cons]
  /\ nSearch' = 2
  /\ UNCHANGED <<pc, routeVars>>

StrictNext == RouteFirstEdge \/ RunGetPathStrict

SpecStrict == StrictInit /\ [][StrictNext]_vars

\* the cells one admissible unit step away from m
AdmissibleSteps(c, cons, toIdx, maxX, maxY, m) ==
  { n \in 0..(c.stride * (maxY + 1) - 1) :
      /\ n % c.stride <= maxX
      /\ Adjacent4(m, n, c.stride)
      /\ (n \notin c.blocked \/ n = toIdx)
      /\ StepOk(cons, m, n, stepToConnectionBits(m, n, c.stride)[1],
                stepToConnectionBits(m, n, c.stride)[2], segmentKey(m, n)) }

\* breadth-first layers from the source: the number of unit steps of a
\* shortest admissible path to toIdx, or -1 when there is none
RECURSIVE ShortestSteps(_, _, _, _, _, _, _, _)
ShortestSteps(front, seen, d, c, cons, toIdx, maxX, maxY) ==
  IF toIdx \in front THEN d
  ELSE IF front = {} THEN -1
  ELSE LET next == UNION { AdmissibleSteps(c, cons, toIdx, maxX, maxY, m) : m \in front }
       IN ShortestSteps(next \ seen, seen \cup next, d + 1, c, cons, toIdx, maxX, maxY)

ShortestFor(c, q, cons) ==
  ShortestSteps({q.fromIdx}, {q.fromIdx}, 0, c, cons, q.toIdx, q.maxX, q.maxY)

\* C21: whenever getPath, or getPathStrict over the steps its constraints
\* permit, returns a path, the number of unit steps of that path is the least
\* number of unit steps of any admissible path from the source to the target
\* inside the search bounds.
C21_ShortestPath ==
  (pc = "strict" /\ nSearch > 0 /\ result.found) =>
    Len(result.path) - 1 = ShortestFor(ctx, query, query.cons)

\* the same for getPath on the grids of SpecPath, with smaller search bounds
C21_GetPathShortest ==
  (pc = "path" /\ nSearch > 0 /\ result.found) =>
    Len(result.path) - 1 = ShortestFor(ctx, query, NoConstraints)

\* a strict path that is longer than the unconstrained distance: the
\* constraints forced a detour, and the heuristic's bonus applied on the way
C21_Witness ==
  /\ pc = "strict" /\ nSearch = 2 /\ result.found
  /\ Len(result.path) - 1 > ShortestFor(ctx, query, NoConstraints)
  /\ query.fromIdx % ctx.stride # query.toIdx % ctx.stride
  /\ query.fromIdx \div ctx.stride # query.toIdx \div ctx.stride

C21_WitnessGetPath ==
  /\ pc = "path" /\ nSearch > 0 /\ result.found
  /\ Len(result.path) - 1 > Abs((query.fromIdx % ctx.stride) - (query.toIdx % ctx.stride))
                            + Abs((query.fromIdx \div ctx.stride) - (query.toIdx \div ctx.stride))
  /\ query.fromIdx % ctx.stride # query.toIdx % ctx.stride
  /\ query.fromIdx \div ctx.stride # query.toIdx \div ctx.stride

(***************************************************************************)
(* Specification SpecStamp: searches on one reused context, up to and past *)
(* the wrap of the stamp counter.  A search that is repeated with the same *)
(* arguments before any wrap leaves, each time, the cells it writes with   *)
(* the same costs and parents and with the stamp of that run, and every    *)
(* other cell as it was: no cell carries a stamp above the counter, so     *)
(* each run starts with every cell undiscovered.  RepeatGetPath is the     *)
(* context after such a series, which is how a run gets near the wrap.     *)
(***************************************************************************)
StampStride == 3
StampHeight == 2
MaxStampSearches == 3

StampCells == 0..(StampStride * StampHeight - 1)

\* times >= 1 searches with the same arguments, the stamp not wrapping
RepeatGetPath(c, fromIdx, toIdx, maxX, maxY, times) ==
  getPath([c EXCEPT !.stamp = c.stamp + times - 1], fromIdx, toIdx, maxX, maxY)

StampInit ==
  /\ pc = "stamp"
  /\ RouteIdle
  /\ ctx = makeAStarContext(StampStride, StampHeight)
  /\ query = [fromIdx |-> 0, toIdx |-> 0, maxX |-> 0, maxY |-> 0, times |-> 0, before |-> ctx]
  /\ result = [found |-> FALSE, path |-> <<>>]
  /\ nSearch = 0

\* one call of getPath on the context as the calls before left it
RunSearchOnce ==
  /\ pc = "stamp"
  /\ nSearch < MaxStampSearches
  /\ \E maxX \in 0..(StampStride - 1), maxY \in 0..(StampHeight - 1) :
     \E fromIdx \in StampCells, toIdx \in StampCells :
       /\ fromIdx # toIdx
       /\ fromIdx % StampStride <= maxX /\ fromIdx \div StampStride <= maxY
       /\ toIdx % StampStride <= maxX /\ toIdx \div StampStride <= maxY
       /\ \E r \in {getPath(ctx, fromIdx, toIdx, maxX, maxY)} :
            /\ ctx' = r.ctx
            /\ result' = [found |-> r.found, path |-> r.path]
            /\ query' = [fromIdx |-> fromIdx, toIdx |-> toIdx, maxX |-> maxX, maxY |-> maxY,
                         times |-> 1, before |-> ctx]
  /\ nSearch' = nSearch + 1
  /\ UNCHANGED <<pc, routeVars>>

\* the same call twice, or as often as it takes to bring the stamp to its
\* largest value
RunSearchRepeated ==
  /\ pc = "stamp"
  /\ nSearch < MaxStampSearches
  /\ ctx.stamp < StampModulus - 2
  /\ \A i \in StampCells : ctx.costStamp[i] <= ctx.stamp
  /\ \E times \in {2, StampModulus - 1 - ctx.stamp} :
     \E maxX \in 0..(StampStride - 1), maxY \in 0..(StampHeight - 1) :
     \E fromIdx \in StampCells, toIdx \in StampCells :
       /\ fromIdx # toIdx
       /\ fromIdx % StampStride <= maxX /\ fromIdx \div StampStride <= maxY
       /\ toIdx % StampStride <= maxX /\ toIdx \div StampStride <= maxY
       /\ \E r \in {RepeatGetPath(ctx, fromIdx, toIdx, maxX, maxY, times)} :
            /\ ctx' = r.ctx
            /\ result' = [found |-> r.found, path |-> r.path]
            /\ query' = [fromIdx |-> fromIdx, toIdx |-> toIdx, maxX |-> maxX, maxY |-> maxY,
                         times |-> times, before |-> ctx]
  /\ nSearch' = nSearch + 1
  /\ UNCHANGED <<pc, routeVars>>

StampNext == RunSearchOnce \/ RunSearchRepeated

SpecStamp == StampInit /\ [][StampNext]_vars

\* the same call made twice in a row leaves what RepeatGetPath says
RepeatIsIteration ==
  (pc = "stamp" /\ nSearch > 0 /\ query.times = 2) =>
    ctx = getPath(getPath(query.before, query.fromIdx, query.toIdx, query.maxX, query.maxY).ctx,
                  query.fromIdx, query.toIdx, query.maxX, query.maxY).ctx

FreshContext(c) == [makeAStarContext(c.stride, c.height) EXCEPT !.blocked = c.blocked]

\* C24: when a search starts on a reused context, no cell already carries the
\* stamp that search will use, so a cell counts as discovered only once the
\* search itself has written its cost and parent; also after the stamp wrapped.
C24_DiscoveredOnlyIfWritten ==
  pc = "stamp" => \A i \in StampCells : ctx.costStamp[i] # NextStamp(ctx.stamp)

\* what the stale cells cost: a search on the reused context returns what the
\* same search returns on a context nothing was searched on
C24_SameAsFresh ==
  (pc = "stamp" /\ nSearch > 0 /\ query.times = 1) =>
    LET r == getPath(FreshContext(ctx), query.fromIdx, query.toIdx, query.maxX, query.maxY)
    IN result = [found |-> r.found, path |-> r.path]

\* before the wrap the claim holds: the stamps of all cells are at most the
\* counter, and the counter goes up
C24_HoldsBeforeWrap ==
  (pc = "stamp" /\ \A i \in StampCells : ctx.costStamp[i] <= ctx.stamp
               /\ ctx.stamp < StampModulus - 1) =>
    \A i \in StampCells : ctx.costStamp[i] # NextStamp(ctx.stamp)

(***************************************************************************)
(* Specification SpecPlace: the placement phase of createMappingOnce on    *)
(* flowcharts without subgraphs.  Nodes are numbered in the order of       *)
(* graph.nodes; query is the flowchart and the margin, result the grid     *)
(* coordinate of every node.                                               *)
(***************************************************************************)
MaxPlaceNodes == 3
MaxPlaceEdges == 3

PlaceGraphs ==
  { g \in [n : 1..MaxPlaceNodes, edges : SeqsUpTo(Pairs(MaxPlaceNodes), MaxPlaceEdges),
           graphDirection : {"LR", "TD"}] :
      \A k \in DOMAIN g.edges : g.edges[k].from <= g.n /\ g.edges[k].to <= g.n }

PlaceInit ==
  /\ pc = "place"
  /\ RouteIdle
  /\ ctx = <<>>
  /\ \E g \in PlaceGraphs, m \in DOMAIN LAYOUT_MARGIN_STEPS :
       query = [g |-> g, layoutMargin |-> LAYOUT_MARGIN_STEPS[m]]
  /\ result = <<>>
  /\ nSearch = 0

RunPlaceNodes ==
  /\ pc = "place"
  /\ nSearch = 0
  /\ result' = PlaceNodes(query.g.n, query.g.edges, query.g.graphDirection, query.layoutMargin)
  /\ nSearch' = 1
  /\ UNCHANGED <<pc, ctx, query, routeVars>>

SpecPlace == PlaceInit /\ [][RunPlaceNodes]_vars

\* the cells of the 3x3 block whose top-left cell is c
BlockOf(c) == { [x |-> c.x + dx, y |-> c.y + dy] : dx \in 0..2, dy \in 0..2 }

LevelZeroNodes ==
  { i \in 1..query.g.n :
      IF query.g.graphDirection = "LR" THEN result[i].x = query.layoutMargin
      ELSE result[i].y = query.layoutMargin }

\* C26: the nodes placed at level 0 are exactly the nodes that are not the
\* target of any edge.
C26_RootsAreNonTargets ==
  (pc = "place" /\ nSearch = 1) =>
    LevelZeroNodes = { i \in 1..query.g.n : \A k \in DOMAIN query.g.edges : query.g.edges[k].to # i }

\* what the scan gives: the nodes that are not the target of an edge that
\* leaves an earlier node of graph.nodes
C26_RootsByScanOrder ==
  (pc = "place" /\ nSearch = 1) =>
    LevelZeroNodes = { i \in 1..query.g.n :
                         \A k \in DOMAIN query.g.edges :
                            ~(query.g.edges[k].to = i /\ query.g.edges[k].from < i) }

(***************************************************************************)
(* Specification SpecCanvas: deambiguateUnicodeCrossings on small          *)
(* canvases.  canvas[x][y] is a glyph; the glyphs are named here by their  *)
(* strokes: " " blank, "hline" and "vline" the lines, "cross" the four-way *)
(* crossing, "tl" "tr" "bl" "br" the corners (top-left ..), "tee_r"        *)
(* "tee_l" "tee_d" "tee_u" the tees (the side the stem points to).         *)
(* query holds the canvas handed to the call, result the canvas object.    *)
(***************************************************************************)
CanvasMaxX == 1
CanvasMaxY == 2

Glyphs == {" ", "hline", "vline", "cross", "tee_d", "bl"}

connectsLeft(c) == c \in {"hline", "cross", "tee_d", "tee_u", "tee_l", "tr", "br"}

connectsRight(c) == c \in {"hline", "cross", "tee_d", "tee_u", "tee_r", "tl", "bl"}

connectsUp(c) == c \in {"vline", "cross", "tee_r", "tee_l", "tee_u", "bl", "br"}

connectsDown(c) == c \in {"vline", "cross", "tee_r", "tee_l", "tee_d", "tl", "tr"}

getCanvasSize(canvas) == <<Len(canvas) - 1, Len(canvas[1]) - 1>>

\* canvas[x][y] with the 0-based indices of the source
CellAt(canvas, x, y) == canvas[x + 1][y + 1]

hCount(canvas, x, y) ==
  LET maxX == getCanvasSize(canvas)[1]
      left == IF x > 0 THEN CellAt(canvas, x - 1, y) ELSE " "
      right == IF x < maxX THEN CellAt(canvas, x + 1, y) ELSE " "
  IN (IF connectsRight(left) THEN 1 ELSE 0) + (IF connectsLeft(right) THEN 1 ELSE 0)

vCount(canvas, x, y) ==
  LET maxY == getCanvasSize(canvas)[2]
      up == IF y > 0 THEN CellAt(canvas, x, y - 1) ELSE " "
      down == IF y < maxY THEN CellAt(canvas, x, y + 1) ELSE " "
  IN (IF connectsDown(up) THEN 1 ELSE 0) + (IF connectsUp(down) THEN 1 ELSE 0)

\* the loop body with every crossing turned into a horizontal line
DeambiguateCellFlat(canvas, x, y) ==
  IF CellAt(canvas, x, y) # "cross" THEN canvas
  ELSE [canvas EXCEPT ![x + 1][y + 1] = "hline"]

\* the loop body for the cell (x, y)
DeambiguateCell(canvas, x, y) ==
  IF CellAt(canvas, x, y) # "cross" THEN canvas
  ELSE [canvas EXCEPT ![x + 1][y + 1] =
          IF vCount(canvas, x, y) > hCount(canvas, x, y) THEN "vline" ELSE "hline"]

\* for x = 0..maxX, for y = 0..maxY, in place
deambiguateUnicodeCrossings(canvas) ==
  LET maxX == getCanvasSize(canvas)[1]
      maxY == getCanvasSize(canvas)[2]
  IN FoldRange(LAMBDA cv, k : DeambiguateCell(cv, k \div (maxY + 1), k % (maxY + 1)),
               canvas, 0, (maxX + 1) * (maxY + 1) - 1)

Canvases == [1..(CanvasMaxX + 1) -> [1..(CanvasMaxY + 1) -> Glyphs]]

CanvasInit ==
  /\ pc = "canvas"
  /\ RouteIdle
  /\ ctx = <<>>
  /\ query \in Canvases
  /\ result = query
  /\ nSearch = 0

RunDeambiguate ==
  /\ pc = "canvas"
  /\ nSearch = 0
  /\ result' = deambiguateUnicodeCrossings(result)
  /\ nSearch' = 1
  /\ UNCHANGED <<pc, ctx, query, routeVars>>

SpecCanvas == CanvasInit /\ [][RunDeambiguate]_vars

CanvasCells == (0..CanvasMaxX) \X (0..CanvasMaxY)

\* the canvas as the scan sees it when it visits (x, y): the cells of earlier
\* columns and the cells above in the same column are already rewritten
SeenAt(x, y) ==
  [i \in 1..(CanvasMaxX + 1) |-> [j \in 1..(CanvasMaxY + 1) |->
     IF (i - 1 < x) \/ (i - 1 = x /\ j - 1 < y) THEN result[i][j] ELSE query[i][j]]]

isUnicodeArrowChar(c) ==
  c \in {"arrow_u", "arrow_d", "arrow_l", "arrow_r",
         "arrow_ur", "arrow_ul", "arrow_lr", "arrow_ll", "dot"}

isAsciiArrowChar(c) == c \in {"^", "v", "<", ">", "*"}

isUnicodeJunctionOrCorner(c) ==
  c \in {"cross", "tee_d", "tee_u", "tee_r", "tee_l", "tl", "tr", "bl", "br",
         "half_l", "half_u", "half_r", "half_d"}

isAsciiJunctionOrCorner(c) == c = "+"

charHasVerticalStroke(c, useAscii) ==
  IF useAscii THEN c \in {"|", "+"}
  ELSE c \in {"vline", "cross", "tee_d", "tee_u", "tee_r", "tee_l", "tl", "tr", "bl", "br",
              "half_d", "half_u"}

charHasHorizontalStroke(c, useAscii) ==
  IF useAscii THEN c \in {"-", "+"}
  ELSE c \in {"hline", "cross", "tee_d", "tee_u", "tee_r", "tee_l", "tl", "tr", "bl", "br",
              "half_l", "half_r"}

isBridgeCrossingCell(base, x, y, useAscii) ==
  LET maxX == getCanvasSize(base)[1]
      maxY == getCanvasSize(base)[2]
  IN IF x < 0 \/ y < 0 \/ x > maxX \/ y > maxY THEN FALSE
     ELSE LET here == CellAt(base, x, y)
              left == IF x > 0 THEN CellAt(base, x - 1, y) ELSE " "
              right == IF x < maxX THEN CellAt(base, x + 1, y) ELSE " "
              up == IF y > 0 THEN CellAt(base, x, y - 1) ELSE " "
              down == IF y < maxY THEN CellAt(base, x, y + 1) ELSE " "
              verticalAround == charHasVerticalStroke(up, useAscii)
                                  /\ charHasVerticalStroke(down, useAscii)
              horizontalAround == charHasHorizontalStroke(left, useAscii)
                                    /\ charHasHorizontalStroke(right, useAscii)
          IN \/ ((here = " " \/ charHasHorizontalStroke(here, useAscii)) /\ verticalAround)
             \/ ((here = " " \/ charHasVerticalStroke(here, useAscii)) /\ horizontalAround)

isForbiddenLabelCell(base, x, y, useAscii) ==
  LET maxX == getCanvasSize(base)[1]
      maxY == getCanvasSize(base)[2]
  IN IF x < 0 \/ y < 0 \/ x > maxX \/ y > maxY THEN FALSE
     ELSE LET c == CellAt(base, x, y)
          IN \/ (IF useAscii
                 THEN isAsciiArrowChar(c) \/ isAsciiJunctionOrCorner(c)
                 ELSE isUnicodeArrowChar(c) \/ isUnicodeJunctionOrCorner(c))
             \/ isBridgeCrossingCell(base, x, y, useAscii)

intervalOverlapsAvoidPoints(y, startX, endX, avoid) ==
  \E k \in DOMAIN avoid : avoid[k].y = y /\ avoid[k].x >= startX /\ avoid[k].x <= endX

intervalOverlapsForbiddenCells(base, y, startX, endX, useAscii) ==
  \E x \in startX..endX : isForbiddenLabelCell(base, x, y, useAscii)

\* textDisplayWidth for text of narrow characters
\* a character is a glyph name: "wide" has a code point of the wide ranges,
\* "mark" is a combining mark, every other glyph is narrow
charDisplayWidth(c) == IF c = "mark" THEN 0 ELSE IF c = "wide" THEN 2 ELSE 1

textDisplayWidth(text) == FoldRange(LAMBDA w, i : w + charDisplayWidth(text[i]), 0, 1, Len(text))

mkCanvas(x, y) == [i \in 1..(x + 1) |-> [j \in 1..(y + 1) |-> " "]]

copyCanvas(source) == mkCanvas(getCanvasSize(source)[1], getCanvasSize(source)[2])

increaseSize(canvas, newX, newY) ==
  LET targetX == Max(newX, getCanvasSize(canvas)[1])
      targetY == Max(newY, getCanvasSize(canvas)[2])
  IN [i \in 1..(targetX + 1) |-> [j \in 1..(targetY + 1) |->
        IF i <= Len(canvas) /\ j <= Len(canvas[1]) THEN canvas[i][j] ELSE " "]]

drawText(canvas, start, text) ==
  FoldRange(LAMBDA acc, i :
              [ canvas |-> [acc.canvas EXCEPT ![acc.x + 1][start.y + 1] = text[i]],
                x |-> acc.x + charDisplayWidth(text[i]) ],
            [ canvas |-> increaseSize(canvas, start.x + textDisplayWidth(text), start.y),
              x |-> start.x ],
            1, Len(text)).canvas

isJunctionChar(c) ==
  c \in {"hline", "vline", "tl", "tr", "bl", "br", "tee_r", "tee_l", "tee_d", "tee_u",
         "cross", "half_l", "half_u", "half_r", "half_d"}

\* the rows of the table; a row has no entry for its own glyph
JUNCTION_MAP ==
  [ hline |->
      [ vline |-> "cross", tl |-> "tee_d", tr |-> "tee_d", bl |-> "tee_u", br |-> "tee_u",
        tee_r |-> "cross", tee_l |-> "cross", tee_d |-> "tee_d", tee_u |-> "tee_u" ],
    vline |->
      [ hline |-> "cross", tl |-> "tee_r", tr |-> "tee_l", bl |-> "tee_r", br |-> "tee_l",
        tee_r |-> "tee_r", tee_l |-> "tee_l", tee_d |-> "cross", tee_u |-> "cross" ],
    tl |->
      [ hline |-> "tee_d", vline |-> "tee_r", tr |-> "tee_d", bl |-> "tee_r", br |-> "cross",
        tee_r |-> "tee_r", tee_l |-> "cross", tee_d |-> "tee_d", tee_u |-> "cross" ],
    tr |->
      [ hline |-> "tee_d", vline |-> "tee_l", tl |-> "tee_d", bl |-> "cross", br |-> "tee_l",
        tee_r |-> "cross", tee_l |-> "tee_l", tee_d |-> "tee_d", tee_u |-> "cross" ],
    bl |->
      [ hline |-> "tee_u", vline |-> "tee_r", tl |-> "tee_r", tr |-> "cross", br |-> "tee_u",
        tee_r |-> "tee_r", tee_l |-> "cross", tee_d |-> "cross", tee_u |-> "tee_u" ],
    br |->
      [ hline |-> "tee_u", vline |-> "tee_l", tl |-> "cross", tr |-> "tee_l", bl |-> "tee_u",
        tee_r |-> "cross", tee_l |-> "tee_l", tee_d |-> "cross", tee_u |-> "tee_u" ],
    tee_r |->
      [ hline |-> "cross", vline |-> "tee_r", tl |-> "tee_r", tr |-> "cross", bl |-> "tee_r",
        br |-> "cross", tee_l |-> "cross", tee_d |-> "cross", tee_u |-> "cross" ],
    tee_l |->
      [ hline |-> "cross", vline |-> "tee_l", tl |-> "cross", tr |-> "tee_l", bl |-> "cross",
        br |-> "tee_l", tee_r |-> "cross", tee_d |-> "cross", tee_u |-> "cross" ],
    tee_d |->
      [ hline |-> "tee_d", vline |-> "cross", tl |-> "tee_d", tr |-> "tee_d", bl |-> "cross",
        br |-> "cross", tee_r |-> "cross", tee_l |-> "cross", tee_u |-> "cross" ],
    tee_u |->
      [ hline |-> "tee_u", vline |-> "cross", tl |-> "cross", tr |-> "cross", bl |-> "tee_u",
        br |-> "tee_u", tee_r |-> "cross", tee_l |-> "cross", tee_d |-> "cross" ] ]

\* JUNCTION_MAP[c1]?.[c2] ?? c1
mergeJunctions(c1, c2) ==
  IF c1 \in DOMAIN JUNCTION_MAP
  THEN (IF c2 \in DOMAIN JUNCTION_MAP[c1] THEN JUNCTION_MAP[c1][c2] ELSE c1)
  ELSE c1

\* mergeCanvases(base, {0, 0}, useAscii, overlay)
mergeCanvases(base, useAscii, overlay) ==
  LET maxX == Max(getCanvasSize(base)[1], getCanvasSize(overlay)[1])
      maxY == Max(getCanvasSize(base)[2], getCanvasSize(overlay)[2])
  IN [i \in 1..(maxX + 1) |-> [j \in 1..(maxY + 1) |->
        LET current == IF i <= Len(base) /\ j <= Len(base[1]) THEN base[i][j] ELSE " "
            c == IF i <= Len(overlay) /\ j <= Len(overlay[1]) THEN overlay[i][j] ELSE " "
        IN IF c = " " THEN current
           ELSE IF ~useAscii /\ isJunctionChar(c) /\ isJunctionChar(current)
                THEN mergeJunctions(current, c)
                ELSE c]]

\* the closure that accepts every start
IsValidStartAlways(base, middleY, labelWidth, avoid, useAscii, candidate) == TRUE

\* the isValid closure of drawTextOnLine
IsValidStart(base, middleY, labelWidth, avoid, useAscii, candidate) ==
  LET endX == candidate + labelWidth - 1
  IN /\ ~intervalOverlapsAvoidPoints(middleY, candidate, endX, avoid)
     /\ ~intervalOverlapsForbiddenCells(base, middleY, candidate, endX, useAscii)

\* isValid is given as the set of the starts it accepts
findNearestValidStartX(desiredStartX, minStartX, maxStartX, isValid) ==
  IF desiredStartX \in isValid THEN desiredStartX
  ELSE LET maxDelta == Max(0, maxStartX - minStartX)
           goLeft(delta) == desiredStartX - delta >= minStartX /\ (desiredStartX - delta) \in isValid
           goRight(delta) == desiredStartX + delta <= maxStartX /\ (desiredStartX + delta) \in isValid
           hits == { delta \in 1..maxDelta : goLeft(delta) \/ goRight(delta) }
       IN IF hits = {} THEN desiredStartX
          ELSE LET delta == CHOOSE d \in hits : \A e \in hits : d <= e
               IN IF goLeft(delta) THEN desiredStartX - delta ELSE desiredStartX + delta

\* searchMin and searchMax of drawTextOnLine when it is given the base canvas
LabelSearchRange(base, line, labelWidth) ==
  LET minX == Min(line[1].x, line[2].x)
      maxX == Max(line[1].x, line[2].x)
      globalMaxStart == Max(0, getCanvasSize(base)[1] - labelWidth + 1)
      isHorizontal == line[1].y = line[2].y
      segmentMaxStart == maxX - labelWidth + 1
      fits == isHorizontal /\ segmentMaxStart >= minX
  IN [min |-> IF fits THEN Max(0, minX) ELSE 0,
      max |-> IF fits THEN Min(globalMaxStart, segmentMaxStart) ELSE globalMaxStart]

\* drawTextOnLine with baseCanvasForAvoid, as drawGraph calls it for the label layer
drawTextOnLine(canvas, line, label, avoid, base, useAscii) ==
  IF Len(line) < 2 THEN canvas
  ELSE LET minX == Min(line[1].x, line[2].x)
           maxX == Max(line[1].x, line[2].x)
           minY == Min(line[1].y, line[2].y)
           maxY == Max(line[1].y, line[2].y)
           middleX == minX + ((maxX - minX) \div 2)
           middleY == minY + ((maxY - minY) \div 2)
           labelWidth == textDisplayWidth(label)
           centred == middleX - (labelWidth \div 2)
           range == LabelSearchRange(base, line, labelWidth)
           clamped == IF centred < range.min THEN range.min
                      ELSE IF centred > range.max THEN range.max ELSE centred
           startX == IF range.max >= range.min
                     THEN findNearestValidStartX(clamped, range.min, range.max,
                            { candidate \in range.min..range.max :
                                IsValidStart(base, middleY, labelWidth, avoid, useAscii, candidate) })
                     ELSE centred
       IN drawText(canvas, [x |-> startX, y |-> middleY], label)

drawArrowLabel(graphCanvasNow, line, text, avoid, useAscii) ==
  IF Len(text) = 0 THEN copyCanvas(graphCanvasNow)
  ELSE drawTextOnLine(copyCanvas(graphCanvasNow), line, text, avoid, graphCanvasNow, useAscii)

LabelCanvasMaxX == 3
MaxLabelWidth == 3

\* the glyphs a line layer puts on the label's row, per mode
RowGlyphs(useAscii) ==
  IF useAscii THEN {" ", "-", "|", "+", ">"}
  ELSE {" ", "hline", "vline", "tee_d", "arrow_r"}

\* three rows; the label's row is the middle one, and the columns in crossed
\* carry a vertical line above and below it
LabelBase(useAscii, row, crossed) ==
  [i \in 1..(LabelCanvasMaxX + 1) |->
     LET bar == IF i - 1 \in crossed THEN (IF useAscii THEN "|" ELSE "vline") ELSE " "
     IN <<bar, row[i], bar>>]

LabelLines ==
  { <<[x |-> 0, y |-> 1], [x |-> LabelCanvasMaxX, y |-> 1]>>,
    <<[x |-> 1, y |-> 1], [x |-> 0, y |-> 1]>>,
    <<[x |-> 1, y |-> 1], [x |-> LabelCanvasMaxX, y |-> 1]>>,
    <<[x |-> 1, y |-> 0], [x |-> 1, y |-> 2]>> }

LabelTexts == { t \in UNION { [1..n -> {"t", " "}] : n \in 1..MaxLabelWidth } :
                  t[1] = "t" /\ t[Len(t)] = "t" /\ (Len(t) = MaxLabelWidth => t[2] = " ") }

LabelAvoids == {<<>>, <<[x |-> 1, y |-> 1]>>}

\* graph.canvas (result) holds the layers composed before the labels
LabelInit ==
  /\ pc = "label"
  /\ RouteIdle
  /\ ctx = <<>>
  /\ \E useAscii \in BOOLEAN, crossed \in SUBSET (1..(LabelCanvasMaxX - 1)) :
     \E row \in [1..(LabelCanvasMaxX + 1) -> RowGlyphs(useAscii)] :
     \E line \in LabelLines, text \in LabelTexts, avoid \in LabelAvoids :
       query = [base |-> LabelBase(useAscii, row, crossed), line |-> line, text |-> text,
                avoid |-> avoid, useAscii |-> useAscii]
  /\ result = query.base
  /\ nSearch = 0

\* the label stage of drawGraph for one labelled edge
RunDrawLabel ==
  /\ pc = "label"
  /\ nSearch = 0
  /\ result' = mergeCanvases(result, query.useAscii,
                             drawArrowLabel(result, query.line, query.text, query.avoid,
                                            query.useAscii))
  /\ nSearch' = 1
  /\ UNCHANGED <<pc, ctx, query, routeVars>>

SpecLabel == LabelInit /\ [][RunDrawLabel]_vars

LabelPlaced == pc = "label" /\ nSearch = 1

ProtectedCellsIntact ==
  \A x \in 0..getCanvasSize(query.base)[1], y \in 0..getCanvasSize(query.base)[2] :
    isForbiddenLabelCell(query.base, x, y, query.useAscii) =>
      CellAt(result, x, y) = CellAt(query.base, x, y)

\* some start inside the search range keeps the label clear of the avoid
\* points and of the protected cells
ValidStartExists ==
  LET labelWidth == textDisplayWidth(query.text)
      range == LabelSearchRange(query.base, query.line, labelWidth)
      middleY == Min(query.line[1].y, query.line[2].y)
                   + (Abs(query.line[1].y - query.line[2].y) \div 2)
  IN \E candidate \in range.min..range.max :
       IsValidStart(query.base, middleY, labelWidth, query.avoid, query.useAscii, candidate)

MaxCompNodes == 3
MaxCompEdges == 2
MaxSubgraphNodes == 2

\* id.charCodeAt(0): ids 1 and 2 begin with the same character, ids 3 and 4
\* with the next one, and so on
charCodeAt0(id) == (id + 1) \div 2

\* find with path compression: the parent map after the call; the root of x
\* is its parent in that map
RECURSIVE find(_, _)
find(parent, x) ==
  IF parent[x] = x THEN parent
  ELSE LET compressed == find(parent, parent[x])
       IN [compressed EXCEPT ![x] = compressed[parent[x]]]

\* union by rank on uf = [parent, rank]
union(uf, x, y) ==
  LET p1 == find(uf.parent, x)
      rootX == p1[x]
      p2 == find(p1, y)
      rootY == p2[y]
      rankX == uf.rank[rootX]
      rankY == uf.rank[rootY]
  IN IF rootX = rootY THEN [uf EXCEPT !.parent = p2]
     ELSE IF rankX < rankY THEN [uf EXCEPT !.parent = [p2 EXCEPT ![rootX] = rootY]]
     ELSE IF rankX > rankY THEN [uf EXCEPT !.parent = [p2 EXCEPT ![rootY] = rootX]]
     ELSE [parent |-> [p2 EXCEPT ![rootY] = rootX],
           rank |-> [uf.rank EXCEPT ![rootX] = rankX + 1]]

\* the edge loop that joins nothing
unionIfBothNever(uf, a, b) == uf

\* parent.has(a) && parent.has(b) guards every union
unionIfBoth(uf, a, b) ==
  IF a \in DOMAIN uf.parent /\ b \in DOMAIN uf.parent THEN union(uf, a, b) ELSE uf

\* out.push(...sg.nodeIds), then the same for every child, in order
RECURSIVE collectAllNodeIdsFromSubgraph(_)
collectAllNodeIdsFromSubgraph(sg) ==
  FoldRange(LAMBDA out, i : out \o collectAllNodeIdsFromSubgraph(sg.children[i]),
            sg.nodeIds, 1, Len(sg.children))

RECURSIVE unionSubgraphNodes(_, _)
unionSubgraphNodes(uf, sg) ==
  LET all == collectAllNodeIdsFromSubgraph(sg)
      withId == IF sg.id \in DOMAIN uf.parent /\ Len(all) > 0
                THEN FoldRange(LAMBDA u, i : IF all[i] \in DOMAIN u.parent
                                             THEN union(u, sg.id, all[i]) ELSE u,
                               uf, 1, Len(all))
                ELSE uf
      together == IF Len(all) > 1
                  THEN FoldRange(LAMBDA u, i : unionIfBoth(u, all[1], all[i]), withId, 2, Len(all))
                  ELSE withId
  IN FoldRange(LAMBDA u, i : unionSubgraphNodes(u, sg.children[i]), together, 1, Len(sg.children))

\* a Set built from a list: the elements in the order of their first insertion
SetOrder(list) ==
  FoldRange(LAMBDA out, i : IF \E j \in DOMAIN out : out[j] = list[i] THEN out
                            ELSE Append(out, list[i]),
            <<>>, 1, Len(list))

\* the ids of a subgraph and of its nested children, in insertion order
collectAllNodeIds(sg) == SetOrder(collectAllNodeIdsFromSubgraph(sg))

RECURSIVE addNestedSubgraphIds(_, _)
addNestedSubgraphIds(sg, out) ==
  FoldRange(LAMBDA o, i : addNestedSubgraphIds(sg.children[i], o \cup {sg.children[i].id}),
            out, 1, Len(sg.children))

\* the component that takes sg: the first one that has the first node id
AssignSubgraph(components, sg) ==
  LET allNodeIds == collectAllNodeIds(sg)
      holders == { k \in DOMAIN components : allNodeIds[1] \in components[k].nodeIds }
  IN IF Len(allNodeIds) > 0 /\ holders # {}
     THEN LET k == CHOOSE h \in holders : \A j \in holders : h <= j
          IN [components EXCEPT ![k].subgraphIds = addNestedSubgraphIds(sg, @ \cup {sg.id})]
     ELSE components

RECURSIVE assignSubgraphsToComponents(_, _)
assignSubgraphsToComponents(subgraphs, components) ==
  FoldRange(LAMBDA cs, i : assignSubgraphsToComponents(subgraphs[i].children,
                                                       AssignSubgraph(cs, subgraphs[i])),
            components, 1, Len(subgraphs))

\* the grouping step that only ever opens a set
addToComponentNewOnly(st, id) ==
  LET parent == find(st.parent, id)
      root == parent[id]
  IN [parent |-> parent,
      roots |-> IF root \in DOMAIN st.componentMap THEN st.roots ELSE Append(st.roots, root),
      componentMap |-> IF root \in DOMAIN st.componentMap THEN st.componentMap
                       ELSE st.componentMap @@ (root :> {id})]

\* one round of the grouping loop: componentMap[find(id)].add(id); roots are
\* the keys of componentMap in insertion order
addToComponent(st, id) ==
  LET parent == find(st.parent, id)
      root == parent[id]
  IN [parent |-> parent,
      roots |-> IF root \in DOMAIN st.componentMap THEN st.roots ELSE Append(st.roots, root),
      componentMap |-> IF root \in DOMAIN st.componentMap
                       THEN [st.componentMap EXCEPT ![root] = @ \cup {id}]
                       ELSE st.componentMap @@ (root :> {id})]

\* the edge loop of a component that takes an edge by its source alone
assignEdgesBySource(edges, nodeIdSet) ==
  { i \in DOMAIN edges : edges[i].source \in nodeIdSet }

\* the indices of the edges with both endpoints in nodeIdSet
assignEdges(edges, nodeIdSet) ==
  { i \in DOMAIN edges : edges[i].source \in nodeIdSet /\ edges[i].target \in nodeIdSet }

\* the least id of a non-empty set of ids
MinId(S) == CHOOSE a \in S : \A b \in S : a <= b

\* Math.min(...ids.map(id => id.charCodeAt(0)))
minCharCode(S) == charCodeAt0(MinId(S))

\* the sort that leaves the components as the grouping loop made them
sortComponentsKeep(components) == components

\* components.sort((a, b) => minA - minB): a stable sort on minCharCode
sortComponents(components) ==
  LET before(j, k) == \/ minCharCode(components[j].nodeIds) < minCharCode(components[k].nodeIds)
                      \/ /\ minCharCode(components[j].nodeIds) = minCharCode(components[k].nodeIds)
                         /\ j < k
      place(k) == Cardinality({ j \in DOMAIN components : before(j, k) }) + 1
  IN [p \in DOMAIN components |-> components[CHOOSE k \in DOMAIN components : place(k) = p]]

\* g = [nodes, edges, subgraphs]; nodes are the keys of graph.nodes in
\* insertion order
findConnectedComponents(g) ==
  IF g.nodes = <<>> THEN <<>>
  ELSE LET ids == SeqToSet(g.nodes)
           uf0 == [parent |-> [id \in ids |-> id], rank |-> [id \in ids |-> 0]]
           uf1 == FoldRange(LAMBDA u, i : unionIfBoth(u, g.edges[i].source, g.edges[i].target),
                            uf0, 1, Len(g.edges))
           uf2 == FoldRange(LAMBDA u, i : unionSubgraphNodes(u, g.subgraphs[i]),
                            uf1, 1, Len(g.subgraphs))
           grouped == FoldRange(LAMBDA st, i : addToComponent(st, g.nodes[i]),
                                [parent |-> uf2.parent, roots |-> <<>>, componentMap |-> <<>>],
                                1, Len(g.nodes))
           components == [k \in DOMAIN grouped.roots |->
                            [nodeIds |-> grouped.componentMap[grouped.roots[k]],
                             subgraphIds |-> {},
                             edgeIndices |-> assignEdges(g.edges,
                                                         grouped.componentMap[grouped.roots[k]])]]
       IN sortComponents(assignSubgraphsToComponents(g.subgraphs, components))

CompIds == 1..MaxCompNodes

CompEdges == [source : CompIds, target : CompIds]

\* the sequences without repetition over a set of ids
NodeOrders == { q \in SeqsUpTo(CompIds, MaxCompNodes) :
                  \A i \in DOMAIN q, j \in DOMAIN q : i # j => q[i] # q[j] }

ComponentsInit ==
  /\ pc = "components"
  /\ RouteIdle
  /\ ctx = <<>>
  /\ \E nodes \in NodeOrders, edges \in SeqsUpTo(CompEdges, MaxCompEdges) :
     \E sgs \in {<<>>} \cup { <<[id |-> i, nodeIds |-> ids, children |-> <<>>]>> :
                                 i \in 0..MaxCompNodes,
                                 ids \in SeqsUpTo(CompIds, MaxSubgraphNodes) } :
       query = [nodes |-> nodes, edges |-> edges, subgraphs |-> sgs]
  /\ result = <<>>
  /\ nSearch = 0

RunFindConnectedComponents ==
  /\ pc = "components"
  /\ nSearch = 0
  /\ result' = findConnectedComponents(query)
  /\ nSearch' = 1
  /\ UNCHANGED <<pc, ctx, query, routeVars>>

SpecComponents == ComponentsInit /\ [][RunFindConnectedComponents]_vars

\* C10: the components returned by findConnectedComponents partition the node
\* ids: every nodeIds set is non-empty, the sets are pairwise disjoint, their
\* union is the set of node ids of the graph, and a graph without nodes
\* yields the empty list.
C10_Partition ==
  (pc = "components" /\ nSearch = 1) =>
    /\ \A k \in DOMAIN result : result[k].nodeIds # {}
    /\ \A j \in DOMAIN result, k \in DOMAIN result :
         j # k => result[j].nodeIds \cap result[k].nodeIds = {}
    /\ UNION { result[k].nodeIds : k \in DOMAIN result } = SeqToSet(query.nodes)
    /\ (query.nodes = <<>> => result = <<>>)

\* two components, one of them joined through an edge, the other a single node
C10_Witness ==
  /\ pc = "components" /\ nSearch = 1
  /\ Len(result) = 2
  /\ \E k \in DOMAIN result : Cardinality(result[k].nodeIds) = 2 /\ result[k].edgeIndices # {}
  /\ query.subgraphs # <<>>

\* the edges of g with both endpoints among its nodes, taken as undirected
Linked(g, a, b) ==
  \E i \in DOMAIN g.edges :
    /\ {g.edges[i].source, g.edges[i].target} \subseteq SeqToSet(g.nodes)
    /\ {g.edges[i].source, g.edges[i].target} = {a, b}

\* the node ids a path of such edges leads to from the ids of S
RECURSIVE ReachableFrom(_, _)
ReachableFrom(g, S) ==
  LET more == S \cup { b \in SeqToSet(g.nodes) : \E a \in S : Linked(g, a, b) }
  IN IF more = S THEN S ELSE ReachableFrom(g, more)

SameComponent(a, b) == \E k \in DOMAIN result : {a, b} \subseteq result[k].nodeIds

\* C11: for a graph without subgraphs, two node ids are in the same returned
\* component if and only if a path of edges, taken as undirected and ignoring
\* edges with an endpoint that is not a node, joins them; a node with no such
\* edge to another node is a component of its own.
C11_ComponentsAreConnectivity ==
  (pc = "components" /\ nSearch = 1 /\ query.subgraphs = <<>>) =>
    /\ \A a \in SeqToSet(query.nodes), b \in SeqToSet(query.nodes) :
         SameComponent(a, b) <=> b \in ReachableFrom(query, {a})
    /\ \A a \in SeqToSet(query.nodes) :
         (\A b \in SeqToSet(query.nodes) \ {a} : ~Linked(query, a, b))
           => \E k \in DOMAIN result : result[k].nodeIds = {a}

\* three nodes joined by a path of two edges no edge of which joins its ends,
\* next to an edge that names an id which is not a node
C11_Witness ==
  /\ pc = "components" /\ nSearch = 1 /\ query.subgraphs = <<>>
  /\ \E a \in SeqToSet(query.nodes), b \in SeqToSet(query.nodes) :
       a # b /\ SameComponent(a, b) /\ ~Linked(query, a, b)

BothEndsIn(e, S) == e.source \in S /\ e.target \in S

\* C12: an edge index is in a component's edgeIndices if and only if both
\* endpoints of the edge are in the component's nodeIds; an edge whose two
\* endpoints are nodes of the graph is in exactly one component, an edge with
\* a missing endpoint in none.
C12_EdgesFollowNodes ==
  (pc = "components" /\ nSearch = 1) =>
    /\ \A k \in DOMAIN result : \A i \in DOMAIN query.edges :
         i \in result[k].edgeIndices <=> BothEndsIn(query.edges[i], result[k].nodeIds)
    /\ \A k \in DOMAIN result : result[k].edgeIndices \subseteq DOMAIN query.edges
    /\ \A i \in DOMAIN query.edges :
         Cardinality({ k \in DOMAIN result : i \in result[k].edgeIndices })
           = IF BothEndsIn(query.edges[i], SeqToSet(query.nodes)) THEN 1 ELSE 0

\* an edge inside a component of two nodes and an edge that leaves the
\* component for an id that is not a node
C12_Witness ==
  /\ pc = "components" /\ nSearch = 1
  /\ \E i \in DOMAIN query.edges, j \in DOMAIN query.edges, k \in DOMAIN result :
       /\ query.edges[i].source # query.edges[i].target
       /\ i \in result[k].edgeIndices
       /\ query.edges[j].source \in result[k].nodeIds
       /\ query.edges[j].target \notin SeqToSet(query.nodes)

\* C17: the components come sorted ascending by their minimum node id, so
\* the order is the same whatever the insertion order of the nodes.
C17_SortedByMinId ==
  (pc = "components" /\ nSearch = 1) =>
    \A j \in DOMAIN result, k \in DOMAIN result :
      j < k => MinId(result[j].nodeIds) < MinId(result[k].nodeIds)

\* what the sort does give: ascending by the first character of the minimum
\* node id, ties left in the order the grouping loop met the components
C17_SortedByFirstChar ==
  (pc = "components" /\ nSearch = 1) =>
    \A j \in DOMAIN result, k \in DOMAIN result :
      j < k => minCharCode(result[j].nodeIds) <= minCharCode(result[k].nodeIds)

(***************************************************************************)
(* Specification SpecReverse: render -> reverse -> parse of small          *)
(* flowcharts.  A graph is its node labels (node k has labels[k]) and its  *)
(* edges in input order.  The drawing and the tracing of an edge are taken *)
(* at their best: every edge is drawn, and every drawn arrowhead is traced *)
(* to its source box and its label.  What the parser keeps of the traced   *)
(* edges and what it writes as Mermaid text are translated from the code.  *)
(***************************************************************************)
MaxFlowNodes == 2
MaxFlowEdges == 2

NodeLabels == {"a", "b"}

EdgeLabels == {"", "l"}

\* the edge operators of Mermaid text and what the Mermaid parser reads from them
ArrowOps ==
  [op : {"-->"}, style : {"solid"}, hasArrowStart : {FALSE}, hasArrowEnd : {TRUE}]
    \cup [op : {"---"}, style : {"solid"}, hasArrowStart : {FALSE}, hasArrowEnd : {FALSE}]
    \cup [op : {"<-->"}, style : {"solid"}, hasArrowStart : {TRUE}, hasArrowEnd : {TRUE}]
    \cup [op : {"-.->"}, style : {"dotted"}, hasArrowStart : {FALSE}, hasArrowEnd : {TRUE}]
    \cup [op : {"-.-"}, style : {"dotted"}, hasArrowStart : {FALSE}, hasArrowEnd : {FALSE}]
    \cup [op : {"<-.->"}, style : {"dotted"}, hasArrowStart : {TRUE}, hasArrowEnd : {TRUE}]

\* drawArrow draws the same five layers for every edge that has a path: the
\* canvas keeps the two boxes and the label of an edge, not its style or
\* arrow flags; traced back, each arrowhead gives one ParsedEdge
tracedEdges(g) ==
  [k \in DOMAIN g.edges |->
     [fromBoxIndex |-> g.edges[k].source, toBoxIndex |-> g.edges[k].target,
      label |-> g.edges[k].label]]

\* the closing loop of parseEdgesUnicode: the first edge of every
\* (fromBoxIndex, toBoxIndex, label) key
dedupeEdges(edges) ==
  FoldRange(LAMBDA out, i : IF \E j \in 1..(i - 1) : edges[j] = edges[i]
                            THEN out ELSE Append(out, edges[i]),
            <<>>, 1, Len(edges))

\* a.label.localeCompare(b.label) on the labels used here
LabelRank == [a |-> 1, b |-> 2]

\* ids N1, N2, .. by position in the stable sort of the boxes by label
boxIndexToId(labels, i) ==
  1 + Cardinality({ j \in DOMAIN labels :
                      \/ LabelRank[labels[j]] < LabelRank[labels[i]]
                      \/ (labels[j] = labels[i] /\ j < i) })

\* the text written: one node line per box, one edge line per parsed edge
reverseFlowchartAsciiToMermaid(g) ==
  LET edges == dedupeEdges(tracedEdges(g))
  IN [nodeLines |-> [i \in DOMAIN g.labels |->
                       [id |-> boxIndexToId(g.labels, i), label |-> g.labels[i]]],
      edgeLines |-> [k \in DOMAIN edges |->
                       [fromId |-> boxIndexToId(g.labels, edges[k].fromBoxIndex),
                        op |-> "-->",
                        label |-> edges[k].label,
                        toId |-> boxIndexToId(g.labels, edges[k].toBoxIndex)]]]

\* the Mermaid parser on such text: nodes by id, edges with what the operator says
parseMermaid(text) ==
  [labels |-> [id \in 1..Len(text.nodeLines) |->
                 (CHOOSE n \in { text.nodeLines[i] : i \in DOMAIN text.nodeLines } :
                    n.id = id).label],
   edges |-> [k \in DOMAIN text.edgeLines |->
                LET a == CHOOSE o \in ArrowOps : o.op = text.edgeLines[k].op
                IN [source |-> text.edgeLines[k].fromId, target |-> text.edgeLines[k].toId,
                    label |-> text.edgeLines[k].label, style |-> a.style,
                    hasArrowStart |-> a.hasArrowStart, hasArrowEnd |-> a.hasArrowEnd]]]

\* edgeKey with the node mapping applied to the ends
edgeKey(e, mapping) == [e EXCEPT !.source = mapping[e.source], !.target = mapping[e.target]]

\* a label-preserving bijection of the nodes under which the edge multisets agree
isomorphicByLabelAndEdges(g1, g2) ==
  /\ Len(g1.labels) = Len(g2.labels)
  /\ \E mapping \in [DOMAIN g1.labels -> DOMAIN g2.labels] :
       /\ \A i \in DOMAIN g1.labels, j \in DOMAIN g1.labels : i # j => mapping[i] # mapping[j]
       /\ \A i \in DOMAIN g1.labels : g2.labels[mapping[i]] = g1.labels[i]
       /\ Len(g1.edges) = Len(g2.edges)
       /\ \A k \in DOMAIN g1.edges :
            Cardinality({ i \in DOMAIN g1.edges :
                            edgeKey(g1.edges[i], mapping) = edgeKey(g1.edges[k], mapping) })
              = Cardinality({ i \in DOMAIN g2.edges :
                                g2.edges[i] = edgeKey(g1.edges[k], mapping) })

FlowEdges ==
  { [source |-> s, target |-> t, label |-> l, style |-> o.style,
     hasArrowStart |-> o.hasArrowStart, hasArrowEnd |-> o.hasArrowEnd] :
      s \in 1..MaxFlowNodes, t \in 1..MaxFlowNodes, l \in EdgeLabels, o \in ArrowOps }

ReverseInit ==
  /\ pc = "reverse"
  /\ RouteIdle
  /\ ctx = <<>>
  /\ \E labels \in [1..MaxFlowNodes -> NodeLabels], edges \in SeqsUpTo(FlowEdges, MaxFlowEdges) :
       query = [labels |-> labels, edges |-> edges]
  /\ result = <<>>
  /\ nSearch = 0

RunRoundTrip ==
  /\ pc = "reverse"
  /\ nSearch = 0
  /\ result' = parseMermaid(reverseFlowchartAsciiToMermaid(query))
  /\ nSearch' = 1
  /\ UNCHANGED <<pc, ctx, query, routeVars>>

SpecReverse == ReverseInit /\ [][RunRoundTrip]_vars

\* C4: for every flowchart, the graph parsed from the text that the reverse
\* parser writes for its rendering is isomorphic to the flowchart: a
\* label-preserving bijection of the nodes makes the multisets of edges, keyed
\* by source, target, label, style and the two arrow flags, equal.
C4_RoundTrip ==
  (pc = "reverse" /\ nSearch = 1) => isomorphicByLabelAndEdges(query, result)

(***************************************************************************)
(* Specification SpecStitch: stitchComponentLayouts on up to MaxLayouts    *)
(* component layouts.  A layout is [width, height, nodes, edges, groups];  *)
(* an edge's optional labelPosition is a sequence of no or one point.      *)
(***************************************************************************)
MaxLayouts == 3
MaxDim == 2
MaxGap == 2

Pt(x, y) == [x |-> x, y |-> y]

\* the group moved but its children left where they were
offsetGroupHorizontalShallow(group, dx) == [group EXCEPT !.x = @ + dx]

RECURSIVE offsetGroupHorizontal(_, _)
offsetGroupHorizontal(group, dx) ==
  [group EXCEPT !.x = @ + dx,
                !.children = [k \in DOMAIN group.children |->
                                offsetGroupHorizontal(group.children[k], dx)]]

RECURSIVE offsetGroupVertical(_, _)
offsetGroupVertical(group, dy) ==
  [group EXCEPT !.y = @ + dy,
                !.children = [k \in DOMAIN group.children |->
                                offsetGroupVertical(group.children[k], dy)]]

\* the loop body that moves on by the extent alone
stitchStepNoGap(acc, layout, isHorizontal, gap) ==
  [acc EXCEPT !.result.width = IF isHorizontal THEN acc.offset + layout.width
                               ELSE Max(@, layout.width),
              !.result.height = IF isHorizontal THEN Max(@, layout.height)
                                ELSE acc.offset + layout.height,
              !.offset = @ + (IF isHorizontal THEN layout.width ELSE layout.height)]

\* one round of the loop over the layouts; acc = [result, offset]
stitchStep(acc, layout, isHorizontal, gap) ==
  IF isHorizontal
  THEN [ result |->
           [ width |-> acc.offset + layout.width,
             height |-> Max(acc.result.height, layout.height),
             nodes |-> acc.result.nodes \o
                       [k \in DOMAIN layout.nodes |->
                          [layout.nodes[k] EXCEPT !.x = @ + acc.offset]],
             edges |-> acc.result.edges \o
                       [k \in DOMAIN layout.edges |->
                          [layout.edges[k] EXCEPT
                             !.points = [p \in DOMAIN @ |-> Pt(@[p].x + acc.offset, @[p].y)],
                             !.labelPosition = [p \in DOMAIN @ |-> Pt(@[p].x + acc.offset, @[p].y)]]],
             groups |-> acc.result.groups \o
                        [k \in DOMAIN layout.groups |->
                           offsetGroupHorizontal(layout.groups[k], acc.offset)] ],
         offset |-> acc.offset + layout.width + gap ]
  ELSE [ result |->
           [ width |-> Max(acc.result.width, layout.width),
             height |-> acc.offset + layout.height,
             nodes |-> acc.result.nodes \o
                       [k \in DOMAIN layout.nodes |->
                          [layout.nodes[k] EXCEPT !.y = @ + acc.offset]],
             edges |-> acc.result.edges \o
                       [k \in DOMAIN layout.edges |->
                          [layout.edges[k] EXCEPT
                             !.points = [p \in DOMAIN @ |-> Pt(@[p].x, @[p].y + acc.offset)],
                             !.labelPosition = [p \in DOMAIN @ |-> Pt(@[p].x, @[p].y + acc.offset)]]],
             groups |-> acc.result.groups \o
                        [k \in DOMAIN layout.groups |->
                           offsetGroupVertical(layout.groups[k], acc.offset)] ],
         offset |-> acc.offset + layout.height + gap ]

EmptyPositionedGraph == [width |-> 0, height |-> 0, nodes |-> <<>>, edges |-> <<>>, groups |-> <<>>]

stitchComponentLayouts(layouts, direction, gap) ==
  IF Len(layouts) = 0 THEN EmptyPositionedGraph
  ELSE IF Len(layouts) = 1 THEN layouts[1]
  ELSE LET isHorizontal == direction \in {"TD", "TB", "BT"}
       IN FoldRange(LAMBDA acc, i : stitchStep(acc, layouts[i], isHorizontal, gap),
                    [result |-> EmptyPositionedGraph, offset |-> 0],
                    1, Len(layouts)).result

StitchDirections == {"TD", "TB", "BT", "LR", "RL"}

Group(id, x, y, children) == [id |-> id, x |-> x, y |-> y, children |-> children]

\* what a layout holds: nothing; a node, an edge without label position and a
\* group; two nodes, an edge with label position and a group in a group
LayoutBodies ==
  { [nodes |-> <<>>, edges |-> <<>>, groups |-> <<>>],
    [nodes |-> <<[id |-> "a", x |-> 1, y |-> 2]>>,
     edges |-> <<[source |-> "a", target |-> "a", points |-> <<Pt(1, 2), Pt(2, 1)>>,
                  labelPosition |-> <<>>]>>,
     groups |-> <<Group("g", 0, 1, <<>>)>>],
    [nodes |-> <<[id |-> "b", x |-> 0, y |-> 1], [id |-> "c", x |-> 2, y |-> 0]>>,
     edges |-> <<[source |-> "b", target |-> "c", points |-> <<Pt(0, 1), Pt(2, 0)>>,
                  labelPosition |-> <<Pt(1, 1)>>]>>,
     groups |-> <<Group("h", 0, 0, <<Group("i", 1, 0, <<Group("j", 1, 1, <<>>)>>)>>)>>] }

Layouts ==
  { [width |-> w, height |-> h, nodes |-> b.nodes, edges |-> b.edges, groups |-> b.groups] :
      w \in 1..MaxDim, h \in 1..MaxDim, b \in LayoutBodies }

StitchInit ==
  /\ pc = "stitch"
  /\ RouteIdle
  /\ ctx = <<>>
  /\ \E layouts \in SeqsUpTo(Layouts, MaxLayouts), direction \in StitchDirections, gap \in 0..MaxGap :
       query = [layouts |-> layouts, direction |-> direction, gap |-> gap]
  /\ result = <<>>
  /\ nSearch = 0

RunStitch ==
  /\ pc = "stitch"
  /\ nSearch = 0
  /\ result' = stitchComponentLayouts(query.layouts, query.direction, query.gap)
  /\ nSearch' = 1
  /\ UNCHANGED <<pc, ctx, query, routeVars>>

SpecStitch == StitchInit /\ [][RunStitch]_vars

SumOf(f, lo, hi) == FoldRange(LAMBDA acc, i : acc + f[i], 0, lo, hi)

LargestOf(f, lo, hi) == FoldRange(LAMBDA acc, i : Max(acc, f[i]), f[lo], lo, hi)

LayoutWidths == [i \in DOMAIN query.layouts |-> query.layouts[i].width]

LayoutHeights == [i \in DOMAIN query.layouts |-> query.layouts[i].height]

SideBySide == query.direction \in {"TD", "TB", "BT"}

\* C13: for two or more layouts, side by side (TD, TB, BT) the width is the
\* sum of the widths plus a gap between neighbours and the height the largest
\* height; stacked (LR, RL) the height is the sum of the heights plus the
\* gaps and the width the largest width.
C13_StitchedSize ==
  (pc = "stitch" /\ nSearch = 1 /\ Len(query.layouts) >= 2) =>
    LET n == Len(query.layouts)
    IN IF SideBySide
       THEN /\ result.width = SumOf(LayoutWidths, 1, n) + (n - 1) * query.gap
            /\ result.height = LargestOf(LayoutHeights, 1, n)
       ELSE /\ result.height = SumOf(LayoutHeights, 1, n) + (n - 1) * query.gap
            /\ result.width = LargestOf(LayoutWidths, 1, n)

\* three layouts of different widths and heights stacked with a gap
C13_Witness ==
  /\ pc = "stitch" /\ nSearch = 1 /\ Len(query.layouts) = 3
  /\ ~SideBySide /\ query.gap > 0
  /\ query.layouts[1].height # query.layouts[2].height
  /\ query.layouts[1].width < query.layouts[2].width
  /\ result.height > result.width

\* the shift of layout i: the extents and gaps of the layouts before it
ShiftOf(i) ==
  IF SideBySide THEN SumOf(LayoutWidths, 1, i - 1) + (i - 1) * query.gap
  ELSE SumOf(LayoutHeights, 1, i - 1) + (i - 1) * query.gap

ShiftPt(p, d) == IF SideBySide THEN Pt(p.x + d, p.y) ELSE Pt(p.x, p.y + d)

RECURSIVE ShiftGroup(_, _)
ShiftGroup(g, d) ==
  [ id |-> g.id,
    x |-> IF SideBySide THEN g.x + d ELSE g.x,
    y |-> IF SideBySide THEN g.y ELSE g.y + d,
    children |-> [k \in DOMAIN g.children |-> ShiftGroup(g.children[k], d)] ]

\* where the items of layout i start in a list of the result
StartOf(counts, i) == SumOf(counts, 1, i - 1)

\* C14: every node, edge point, label position and group (nested groups
\* too) of layout i is in the result shifted along the stacking axis by the
\* extents and gaps of the earlier layouts, unchanged on the other axis; the
\* first layout is not shifted; the result holds each node, edge and group of
\* each layout exactly once.
C14_ShiftedOnce ==
  (pc = "stitch" /\ nSearch = 1 /\ Len(query.layouts) >= 2) =>
    LET L == query.layouts
        nNodes == [i \in DOMAIN L |-> Len(L[i].nodes)]
        nEdges == [i \in DOMAIN L |-> Len(L[i].edges)]
        nGroups == [i \in DOMAIN L |-> Len(L[i].groups)]
    IN /\ ShiftOf(1) = 0
       /\ Len(result.nodes) = SumOf(nNodes, 1, Len(L))
       /\ Len(result.edges) = SumOf(nEdges, 1, Len(L))
       /\ Len(result.groups) = SumOf(nGroups, 1, Len(L))
       /\ \A i \in DOMAIN L :
            /\ \A k \in DOMAIN L[i].nodes :
                 LET node == L[i].nodes[k]
                     out == result.nodes[StartOf(nNodes, i) + k]
                 IN out.id = node.id /\ Pt(out.x, out.y) = ShiftPt(node, ShiftOf(i))
            /\ \A k \in DOMAIN L[i].edges :
                 LET edge == L[i].edges[k]
                     out == result.edges[StartOf(nEdges, i) + k]
                 IN /\ out.source = edge.source /\ out.target = edge.target
                    /\ out.points = [p \in DOMAIN edge.points |->
                                       ShiftPt(edge.points[p], ShiftOf(i))]
                    /\ out.labelPosition = [p \in DOMAIN edge.labelPosition |->
                                              ShiftPt(edge.labelPosition[p], ShiftOf(i))]
            /\ \A k \in DOMAIN L[i].groups :
                 result.groups[StartOf(nGroups, i) + k] = ShiftGroup(L[i].groups[k], ShiftOf(i))

\* a third layout with a labelled edge and nested groups, shifted by more
\* than the gap
C14_Witness ==
  /\ pc = "stitch" /\ nSearch = 1 /\ Len(query.layouts) = 3
  /\ query.gap > 0
  /\ \E k \in DOMAIN query.layouts[3].groups : query.layouts[3].groups[k].children # <<>>
  /\ \E k \in DOMAIN query.layouts[3].edges : query.layouts[3].edges[k].labelPosition # <<>>
  /\ query.layouts[2].nodes # <<>>
  /\ Len(result.groups) >= 2

(***************************************************************************)
(* Specification SpecText: texts drawn on a canvas and on an overlay, the  *)
(* overlay merged into the canvas, and the canvas turned into lines.       *)
(* result = [canvas, overlay]; nSearch counts the operations done.         *)
(***************************************************************************)
MaxDraws == 2
MaxTextLen == 2
MaxTextStart == 1

\* the rows of canvasToString, each the sequence of the characters emitted:
\* the cell after a character of width 2 is skipped
canvasToString(canvas) ==
  [j \in 1..(getCanvasSize(canvas)[2] + 1) |->
     FoldRange(LAMBDA acc, i :
                 IF acc.skip THEN [acc EXCEPT !.skip = FALSE]
                 ELSE [ line |-> Append(acc.line, canvas[i][j]),
                        skip |-> charDisplayWidth(canvas[i][j]) = 2 ],
               [line |-> <<>>, skip |-> FALSE],
               1, getCanvasSize(canvas)[1] + 1).line]

TextChars == {"t", "wide", "mark"}

Texts == SeqsUpTo(TextChars, MaxTextLen) \ {<<>>}

TextStarts == { [x |-> x, y |-> y] : x \in 0..MaxTextStart, y \in 0..MaxTextStart }

TextInit ==
  /\ pc = "text"
  /\ RouteIdle
  /\ ctx = <<>>
  /\ query = <<>>
  /\ result = [canvas |-> mkCanvas(0, 1), overlay |-> mkCanvas(0, 0)]
  /\ nSearch = 0

DrawTextOnCanvas ==
  /\ pc = "text"
  /\ nSearch < MaxDraws
  /\ \E start \in TextStarts, text \in Texts :
       /\ result' = [result EXCEPT !.canvas = drawText(@, start, text)]
       /\ query' = [op |-> "drawText", start |-> start, text |-> text]
  /\ nSearch' = nSearch + 1
  /\ UNCHANGED <<pc, ctx, routeVars>>

DrawTextOnOverlay ==
  /\ pc = "text"
  /\ nSearch < MaxDraws
  /\ \E start \in TextStarts, text \in Texts :
       /\ result' = [result EXCEPT !.overlay = drawText(@, start, text)]
       /\ query' = [op |-> "drawOverlay", start |-> start, text |-> text]
  /\ nSearch' = nSearch + 1
  /\ UNCHANGED <<pc, ctx, routeVars>>

MergeOverlay ==
  /\ pc = "text"
  /\ nSearch < MaxDraws + 1
  /\ nSearch > 0
  /\ result' = [result EXCEPT !.canvas = mergeCanvases(@, FALSE, result.overlay)]
  /\ query' = [op |-> "mergeCanvases"]
  /\ nSearch' = nSearch + 1
  /\ UNCHANGED <<pc, ctx, routeVars>>

TextNext == DrawTextOnCanvas \/ DrawTextOnOverlay \/ MergeOverlay

SpecText == TextInit /\ [][TextNext]_vars

LineWidthsFit(canvas) ==
  \A j \in DOMAIN canvasToString(canvas) :
    textDisplayWidth(canvasToString(canvas)[j]) = getCanvasSize(canvas)[1] + 1

\* C15: every line canvasToString emits for a canvas made by drawText and
\* mergeCanvases has a display width equal to the number of canvas columns,
\* so all lines are equally wide, a wide character counting for two columns.
C15_LineWidthIsColumns ==
  pc = "text" => LineWidthsFit(result.canvas) /\ LineWidthsFit(result.overlay)

HasZeroWidthCell(canvas) ==
  \E i \in DOMAIN canvas : \E j \in DOMAIN canvas[i] : charDisplayWidth(canvas[i][j]) = 0

\* the lines of a canvas that holds no character of width 0 do fit
C15_FitWithoutZeroWidth ==
  pc = "text" =>
    /\ ~HasZeroWidthCell(result.canvas) => LineWidthsFit(result.canvas)
    /\ ~HasZeroWidthCell(result.overlay) => LineWidthsFit(result.overlay)

(***************************************************************************)
(* Specification SpecCrossOrder: the crossings of a canvas rewritten one   *)
(* at a time by the loop body of deambiguateUnicodeCrossings, in any       *)
(* order.  result = [canvas, todo]; todo holds the crossings not yet       *)
(* visited.                                                                *)
(***************************************************************************)
CrossingsOf(canvas) == { p \in CanvasCells : CellAt(canvas, p[1], p[2]) = "cross" }

CrossOrderInit ==
  /\ pc = "crossorder"
  /\ RouteIdle
  /\ ctx = <<>>
  /\ query \in Canvases
  /\ result = [canvas |-> query, todo |-> CrossingsOf(query)]
  /\ nSearch = 0

VisitCrossing ==
  /\ pc = "crossorder"
  /\ \E p \in result.todo :
       result' = [canvas |-> DeambiguateCell(result.canvas, p[1], p[2]),
                  todo |-> result.todo \ {p}]
  /\ nSearch' = nSearch + 1
  /\ UNCHANGED <<pc, ctx, query, routeVars>>

SpecCrossOrder == CrossOrderInit /\ [][VisitCrossing]_vars

\* C16: whatever the order in which the crossings are rewritten one at a
\* time, each by the rule of deambiguateUnicodeCrossings, the final canvas is
\* the one the scan of the function gives.
C16_AnyOrderSameCanvas ==
  (pc = "crossorder" /\ result.todo = {}) =>
    result.canvas = deambiguateUnicodeCrossings(query)

(***************************************************************************)
(* Specification SpecLabelLine: the edge loop of createMappingOnce after   *)
(* determinePath, on two placed nodes: every edge has its merged path and  *)
(* its text, and increaseGridSizeForPath and determineLabelLine run on the *)
(* edges in order.  graph.offsetX and graph.offsetY are 0 in this loop.    *)
(***************************************************************************)
\* Calculate the total character width of a line segment by summing column widths
calculateLineWidth(sizes, line) ==
  FoldRange(LAMBDA total, x : total + Get(sizes.columnWidth, x), 0,
            Min(line[1].x, line[2].x), Max(line[1].x, line[2].x))

gridToDrawingCoordForLabel(sizes, c) ==
  [ x |-> SumBelow(sizes.columnWidth, c.x) + (Get(sizes.columnWidth, c.x) \div 2),
    y |-> SumBelow(sizes.rowHeight, c.y) + (Get(sizes.rowHeight, c.y) \div 2) ]

gridToDrawingOriginForNode(sizes, c) ==
  [ x |-> SumBelow(sizes.columnWidth, c.x), y |-> SumBelow(sizes.rowHeight, c.y) ]

getNodeBox(sizes, gc) ==
  LET w == Get(sizes.columnWidth, gc.x) + Get(sizes.columnWidth, gc.x + 1)
      h == Get(sizes.rowHeight, gc.y) + Get(sizes.rowHeight, gc.y + 1)
      origin == gridToDrawingOriginForNode(sizes, gc)
  IN [ minX |-> origin.x, minY |-> origin.y, maxX |-> origin.x + w, maxY |-> origin.y + h ]

labelOverlapsNodeBox(label, node) ==
  IF label.y < node.minY \/ label.y > node.maxY THEN FALSE
  ELSE ~(label.endX < node.minX \/ node.maxX < label.startX)

collectOccupiedNodeBoxes(sizes, coords) == [i \in DOMAIN coords |-> getNodeBox(sizes, coords[i])]

\* Null when the label has no display width
getLabelBox(sizes, line, label) ==
  LET labelWidth == textDisplayWidth(label)
      a == gridToDrawingCoordForLabel(sizes, line[1])
      b == gridToDrawingCoordForLabel(sizes, line[2])
      minX == Min(a.x, b.x)
      maxX == Max(a.x, b.x)
      minY == Min(a.y, b.y)
      maxY == Max(a.y, b.y)
      middleX == minX + ((maxX - minX) \div 2)
      middleY == minY + ((maxY - minY) \div 2)
      startX == middleX - (labelWidth \div 2)
  IN IF labelWidth <= 0 THEN Null
     ELSE [ y |-> middleY, startX |-> startX, endX |-> startX + labelWidth - 1 ]

labelBoxesOverlap(a, b) ==
  IF a.y # b.y THEN FALSE ELSE ~(a.endX < b.startX \/ b.endX < a.startX)

\* the boxes of the edges that have a text and a labelLine, on the sizes of now
collectOccupiedLabelBoxes(sizes, edges) ==
  LET labelled == SelectSeq(edges, LAMBDA e : Len(e.text) # 0 /\ Len(e.labelLine) >= 2
                                               /\ getLabelBox(sizes, e.labelLine, e.text) # Null)
  IN [k \in DOMAIN labelled |-> getLabelBox(sizes, labelled[k].labelLine, labelled[k].text)]

\* one iteration of the segment loop; s.done is the break
LabelLineStep(sizes, edge, lenLabel, occupiedBoxes, occupiedNodeBoxes, s, i) ==
  IF s.done THEN s
  ELSE LET line == <<edge.path[i - 1], edge.path[i]>>
           lineWidth == calculateLineWidth(sizes, line)
           s1 == IF s.fallbackFoundWideEnough THEN s
                 ELSE IF lineWidth >= lenLabel
                 THEN [s EXCEPT !.fallbackLine = line, !.fallbackFoundWideEnough = TRUE]
                 ELSE IF lineWidth > s.fallbackLineSize
                 THEN [s EXCEPT !.fallbackLineSize = lineWidth, !.fallbackLine = line]
                 ELSE s
           candidateBox == getLabelBox(sizes, line, edge.text)
           overlapsExisting == IF candidateBox # Null
                               THEN \E k \in DOMAIN occupiedBoxes :
                                      labelBoxesOverlap(occupiedBoxes[k], candidateBox)
                               ELSE FALSE
           overlapsNode == IF candidateBox # Null
                           THEN \E k \in DOMAIN occupiedNodeBoxes :
                                  labelOverlapsNodeBox(candidateBox, occupiedNodeBoxes[k])
                           ELSE FALSE
           s2 == IF ~overlapsExisting /\ ~overlapsNode /\ lineWidth > s1.bestNonOverlappingSize
                 THEN [s1 EXCEPT !.bestNonOverlappingSize = lineWidth,
                                 !.bestNonOverlappingLine = line]
                 ELSE s1
       IN IF ~overlapsExisting /\ ~overlapsNode /\ lineWidth >= lenLabel
          THEN [s2 EXCEPT !.chosenLine = line, !.done = TRUE]
          ELSE s2

\* the segment loop from segment i on; every iteration works on the state the
\* one before has left
RECURSIVE LabelLineLoop(_, _, _, _, _, _, _)
LabelLineLoop(sizes, edge, lenLabel, occupiedBoxes, occupiedNodeBoxes, s, i) ==
  IF i > Len(edge.path) \/ s.done THEN s
  ELSE CHOOSE r \in { LabelLineLoop(sizes, edge, lenLabel, occupiedBoxes, occupiedNodeBoxes,
                                    s1, i + 1) :
                        s1 \in {LabelLineStep(sizes, edge, lenLabel, occupiedBoxes,
                                              occupiedNodeBoxes, s, i)} } : TRUE

\* determineLabelLine once the label width and the occupied boxes are known
ChooseLabelLine(sizes, edge, lenLabel, s) ==
  LET chosenLine == IF s.chosenLine # Null THEN s.chosenLine
                    ELSE IF s.bestNonOverlappingLine # Null THEN s.bestNonOverlappingLine
                    ELSE s.fallbackLine
      minX == Min(chosenLine[1].x, chosenLine[2].x)
      maxX == Max(chosenLine[1].x, chosenLine[2].x)
      middleX == minX + ((maxX - minX) \div 2)
      current == Get(sizes.columnWidth, middleX)
  IN [ sizes |-> [sizes EXCEPT !.columnWidth = Put(@, middleX, Max(current, lenLabel + 2))],
       labelLine |-> chosenLine ]

\* edges: the edges of the graph with their labelLine (<<>> while not placed);
\* the result is the new column widths and the labelLine of the edge
determineLabelLine(sizes, coords, edges, edge) ==
  IF Len(edge.text) = 0 \/ Len(edge.path) < 2
  THEN [sizes |-> sizes, labelLine |-> edge.labelLine]
  ELSE CHOOSE r \in
         { ChooseLabelLine(sizes, edge, lenLabel, s) :
             lenLabel \in {textDisplayWidth(edge.text)},
             s \in { LabelLineLoop(sizes, edge, len, occupiedBoxes, occupiedNodeBoxes,
                                   [ chosenLine |-> Null, done |-> FALSE,
                                     fallbackLine |-> <<edge.path[1], edge.path[2]>>,
                                     fallbackLineSize |-> 0, fallbackFoundWideEnough |-> FALSE,
                                     bestNonOverlappingLine |-> Null,
                                     bestNonOverlappingSize |-> -1 ], 2) :
                        len \in {textDisplayWidth(edge.text)},
                        occupiedBoxes \in {collectOccupiedLabelBoxes(sizes, edges)},
                        occupiedNodeBoxes \in {collectOccupiedNodeBoxes(sizes, coords)} } } : TRUE

MaxLabelEdges == 2
MaxPathPoints == 4
LabelGridMaxX == 4
LabelGridMaxY == 3

\* two nodes side by side as createMappingOnce places them on margin 0
LabelNodeCoords == PlaceNodes(2, <<[from |-> 1, to |-> 2]>>, "LR", 0)

\* the right port of the first node
LabelPathStart == [x |-> LabelNodeCoords[1].x + 2, y |-> LabelNodeCoords[1].y + 1]

LabelGridPoints == { [x |-> x, y |-> y] : x \in LabelPathStart.x..LabelGridMaxX, y \in 0..LabelGridMaxY }

\* merged paths: every segment is axis-aligned and turns at its end
IsMergedPath(p) ==
  /\ \A i \in 2..Len(p) : p[i] # p[i - 1] /\ (p[i].x = p[i - 1].x \/ p[i].y = p[i - 1].y)
  /\ \A i \in 3..Len(p) : (p[i].x = p[i - 1].x) # (p[i - 1].x = p[i - 2].x)

RECURSIVE PathsFrom(_, _)
PathsFrom(p, k) ==
  IF k = 0 THEN {p}
  ELSE {p} \cup UNION { PathsFrom(Append(p, q), k - 1) :
                          q \in { r \in LabelGridPoints : IsMergedPath(Append(p, r)) } }

LabelPaths == { p \in PathsFrom(<<LabelPathStart>>, MaxPathPoints - 1) : Len(p) >= 2 }

EdgeTexts == { <<>>, <<"t">>, <<"t", "wide">>, <<"wide", "wide", "wide">> }

LabelLineInit ==
  /\ pc = "labelling"
  /\ graph \in [ coords : {LabelNodeCoords},
                 edges : [1..MaxLabelEdges -> [text : EdgeTexts, path : LabelPaths]] ]
  /\ marginIdx = 1
  /\ attempts = <<>>
  /\ gridCoords = LabelNodeCoords
  /\ ctx = <<>>
  /\ segmentUsage = EmptyUsage
  /\ usedPoints = <<>>
  /\ edgeOut = <<>>
  /\ lastPre = [usage |-> EmptyUsage, usedPoints |-> <<>>]
  /\ cursor = NoCursor
  /\ gridSizes = SetColumnWidths([columnWidth |-> <<>>, rowHeight |-> <<>>], LabelNodeCoords, 1)
  /\ nodeDrawing = <<>>
  /\ graphCanvas = mkCanvasSize(0, 0)
  /\ drawResult = [nodesDrawn |-> {}, status |-> "none"]
  /\ query = <<>> /\ result = <<>> /\ nSearch = 0

\* the edges of the graph as determineLabelLine finds them: those before the
\* current one have their labelLine, the others have none yet
EdgesNow(placed) ==
  [k \in DOMAIN graph.edges |->
     IF k <= Len(placed) THEN placed[k]
     ELSE [text |-> graph.edges[k].text, path |-> graph.edges[k].path, labelLine |-> <<>>]]

\* increaseGridSizeForPath and determineLabelLine for the next edge; query keeps
\* what determineLabelLine was called on
LabelNextEdge ==
  /\ pc = "labelling"
  /\ Len(edgeOut) < Len(graph.edges)
  /\ \E edge \in {EdgesNow(edgeOut)[Len(edgeOut) + 1]} :
     \E sizes \in {increaseGridSizeForPath(gridSizes, edge.path)} :
     \E r \in {determineLabelLine(sizes, graph.coords, EdgesNow(edgeOut), edge)} :
       /\ query' = [sizes |-> sizes, edge |-> edge, placed |-> edgeOut]
       /\ result' = r.labelLine
       /\ gridSizes' = r.sizes
       /\ edgeOut' = Append(edgeOut, [edge EXCEPT !.labelLine = r.labelLine])
  /\ nSearch' = nSearch + 1
  /\ UNCHANGED <<pc, ctx, graph, marginIdx, attempts, gridCoords, segmentUsage, usedPoints,
                 lastPre, cursor, nodeDrawing, graphCanvas, drawResult>>

SpecLabelLine == LabelLineInit /\ [][LabelNextEdge]_vars

\* the segments of the path determineLabelLine was called on, in path order
LabelSegment(i) == <<query.edge.path[i], query.edge.path[i + 1]>>

LabelSegments == 1..(Len(query.edge.path) - 1)

WidthAt(i) == calculateLineWidth(query.sizes, LabelSegment(i))

\* the centred label box on segment i overlaps no placed edge-label box and no node box
FreeAt(i) ==
  LET box == getLabelBox(query.sizes, LabelSegment(i), query.edge.text)
      labels == collectOccupiedLabelBoxes(query.sizes, query.placed)
      nodes == collectOccupiedNodeBoxes(query.sizes, graph.coords)
  IN box = Null \/ /\ \A k \in DOMAIN labels : ~labelBoxesOverlap(labels[k], box)
                   /\ \A k \in DOMAIN nodes : ~labelOverlapsNodeBox(box, nodes[k])

Labelled == pc = "labelling" /\ nSearch > 0 /\ Len(query.edge.text) # 0

FirstOf(S) == CHOOSE i \in S : \A j \in S : i <= j

Widest(S) == { i \in S : \A j \in S : WidthAt(j) <= WidthAt(i) }

Qualifying == { i \in LabelSegments : WidthAt(i) >= textDisplayWidth(query.edge.text) /\ FreeAt(i) }

FreeSegments == { i \in LabelSegments : FreeAt(i) }

WideEnough == { i \in LabelSegments : WidthAt(i) >= textDisplayWidth(query.edge.text) }

\* the first two tiers of the choice, and the label boxes that follow from them
ChoiceAmongFree ==
  /\ Qualifying # {} => result = LabelSegment(FirstOf(Qualifying))
  /\ (Qualifying = {} /\ FreeSegments # {}) => result = LabelSegment(FirstOf(Widest(FreeSegments)))
  /\ FreeSegments # {} =>
       LET box == getLabelBox(query.sizes, result, query.edge.text)
           labels == collectOccupiedLabelBoxes(query.sizes, query.placed)
       IN box = Null \/ \A k \in DOMAIN labels : ~labelBoxesOverlap(labels[k], box)

C27_LabelLineChoice ==
  Labelled =>
    /\ ChoiceAmongFree
    /\ FreeSegments = {} =>
         result = LabelSegment(FirstOf(IF WideEnough # {} THEN WideEnough ELSE Widest(LabelSegments)))

\* the second edge avoids the label of the first by leaving the first free
\* segment that is wide enough
C27_Witness ==
  /\ Labelled
  /\ Len(query.placed) = 1
  /\ Len(query.placed[1].text) # 0
  /\ Qualifying # {}
  /\ \E i \in WideEnough : i < FirstOf(Qualifying) /\ ~FreeAt(i)
       /\ \E k \in DOMAIN collectOccupiedLabelBoxes(query.sizes, query.placed) :
            labelBoxesOverlap(collectOccupiedLabelBoxes(query.sizes, query.placed)[k],
                              getLabelBox(query.sizes, LabelSegment(i), query.edge.text))

\* the label boxes on the sizes determineLabelLine leaves behind
C27_NoOverlapAfterWidening ==
  (Labelled /\ FreeSegments # {}) =>
    LET boxes == collectOccupiedLabelBoxes(gridSizes, edgeOut)
    IN \A j, k \in DOMAIN boxes : j # k => ~labelBoxesOverlap(boxes[j], boxes[k])

(***************************************************************************)
(* Specification SpecSubgraphs: findConnectedComponents on graphs with a   *)
(* tree of subgraphs: one or two subgraphs at the top, the first with up   *)
(* to one child.  A subgraph id is an id of its own (10 + its number) or   *)
(* its number, which may be a node; the ids in nodeIds may be nodes of the *)
(* graph or not.                                                           *)
(***************************************************************************)
MaxSubgraphEdges == 1

SubgraphNodeIds == SeqsUpTo(CompIds, MaxSubgraphNodes)

SubgraphAt(n, children) ==
  { [id |-> i, nodeIds |-> ids, children |-> c] :
      i \in {n, 10 + n}, ids \in SubgraphNodeIds, c \in children }

SubgraphForests ==
  { <<sg>> : sg \in SubgraphAt(1, {<<>>} \cup { <<c>> : c \in SubgraphAt(2, {<<>>}) }) }
    \cup { <<a, b>> : a \in SubgraphAt(1, {<<>>}), b \in SubgraphAt(2, {<<>>}) }

SubgraphsInit ==
  /\ pc = "subgraphs"
  /\ RouteIdle
  /\ ctx = <<>>
  /\ query \in [ nodes : NodeOrders,
                 edges : SeqsUpTo({ e \in CompEdges : e.source < e.target }, MaxSubgraphEdges),
                 subgraphs : SubgraphForests ]
  /\ result = <<>>
  /\ nSearch = 0

RunComponentsOfSubgraphs ==
  /\ pc = "subgraphs"
  /\ nSearch = 0
  /\ result' = findConnectedComponents(query)
  /\ nSearch' = 1
  /\ UNCHANGED <<pc, ctx, query, routeVars>>

SpecSubgraphs == SubgraphsInit /\ [][RunComponentsOfSubgraphs]_vars

\* every subgraph of the tree, nested ones included
RECURSIVE SubgraphsOf(_)
SubgraphsOf(subgraphs) ==
  UNION { {subgraphs[i]} \cup SubgraphsOf(subgraphs[i].children) : i \in DOMAIN subgraphs }

\* the nodes of the graph that belong to sg, directly or through nested children
RECURSIVE MemberIds(_)
MemberIds(sg) ==
  SeqToSet(sg.nodeIds) \cup UNION { MemberIds(sg.children[i]) : i \in DOMAIN sg.children }

GraphMembers(sg) == MemberIds(sg) \cap SeqToSet(query.nodes)

ComponentsListing(sg) == { k \in DOMAIN result : sg.id \in result[k].subgraphIds }

SubgraphsKept(sg) ==
  /\ \E k \in DOMAIN result : GraphMembers(sg) \subseteq result[k].nodeIds
  /\ GraphMembers(sg) # {} =>
       \E k \in DOMAIN result : /\ ComponentsListing(sg) = {k}
                                /\ GraphMembers(sg) \subseteq result[k].nodeIds

\* every id a subgraph names, directly or through nested children, is a node
IdsAreNodes == \A sg \in SubgraphsOf(query.subgraphs) : MemberIds(sg) \subseteq SeqToSet(query.nodes)

\* C28: the nodes of the graph that belong to the same subgraph, directly or
\* through nested child subgraphs, are in one component, and the id of a
\* subgraph that contains a node of the graph is in the subgraphIds of that
\* component and of no other.
C28_SubgraphsStayTogether ==
  (pc = "subgraphs" /\ nSearch = 1 /\ query.nodes # <<>>) =>
    \A sg \in SubgraphsOf(query.subgraphs) : SubgraphsKept(sg)

\* the same for graphs whose subgraphs name nodes of the graph only
C28_TogetherWhenIdsAreNodes ==
  (pc = "subgraphs" /\ nSearch = 1 /\ query.nodes # <<>> /\ IdsAreNodes) =>
    \A sg \in SubgraphsOf(query.subgraphs) : SubgraphsKept(sg)

\* a subgraph without nodes of its own whose child holds two nodes that no
\* edge joins, next to a node outside
C28_Witness ==
  /\ pc = "subgraphs" /\ nSearch = 1 /\ IdsAreNodes
  /\ query.edges = <<>>
  /\ Len(result) = 2
  /\ \E sg \in SubgraphsOf(query.subgraphs) :
       /\ sg.nodeIds = <<>>
       /\ Len(sg.children) = 1
       /\ Cardinality(GraphMembers(sg)) = 2
       /\ \E k \in DOMAIN result : {sg.id, sg.children[1].id} \subseteq result[k].subgraphIds

(***************************************************************************)
(* Specification SpecSources: the part of parseEdgesUnicode that follows   *)
(* traceEdgeToSourceBoxes for one arrowhead.  A candidate is a source box, *)
(* the cells visited on the way from the arrowhead to its border and the   *)
(* label read along them; the cells are numbered from the arrowhead.       *)
(***************************************************************************)
MaxCandidates == 3
MaxVisited == 6
MaxBoxes == 2

\* the smallest of a non-empty list of numbers
MinOf(S) == CHOOSE a \in S : \A b \in S : a <= b

\* the filter that drops the self-loop candidates with the longer paths
suppressPseudoSelfLoopsLonger(candidates, toBoxIndex) ==
  LET nonSelf == SelectSeq(candidates, LAMBDA c : c.sourceBoxIndex # toBoxIndex)
      minOther == MinOf({ Len(nonSelf[k].visited) : k \in DOMAIN nonSelf })
  IN IF Len(nonSelf) > 0
     THEN SelectSeq(candidates, LAMBDA c : c.sourceBoxIndex # toBoxIndex
                                             \/ Len(c.visited) <= minOther - 2)
     ELSE candidates

\* nonSelf, minOther and filtered
suppressPseudoSelfLoops(candidates, toBoxIndex) ==
  LET nonSelf == SelectSeq(candidates, LAMBDA c : c.sourceBoxIndex # toBoxIndex)
      minOther == MinOf({ Len(nonSelf[k].visited) : k \in DOMAIN nonSelf })
  IN IF Len(nonSelf) > 0
     THEN SelectSeq(candidates, LAMBDA c : c.sourceBoxIndex # toBoxIndex
                                             \/ Len(c.visited) >= minOther - 2)
     ELSE candidates

\* filtered.sort(...)[0]: the shortest path, a non-self candidate before a
\* self-loop of the same length, the earlier candidate before the later
bestCandidate(filtered, toBoxIndex) ==
  LET selfRank(c) == IF c.sourceBoxIndex = toBoxIndex THEN 1 ELSE 0
      before(a, b) == \/ Len(a.visited) < Len(b.visited)
                      \/ Len(a.visited) = Len(b.visited) /\ selfRank(a) < selfRank(b)
  IN filtered[CHOOSE i \in DOMAIN filtered :
                /\ \A j \in DOMAIN filtered : ~before(filtered[j], filtered[i])
                /\ \A j \in 1..(i - 1) : before(filtered[i], filtered[j])]

\* the edges pushed for one arrowhead; the labels are trimmed when they are read
sourcesOfArrowhead(candidates, toBoxIndex) ==
  LET filtered == suppressPseudoSelfLoops(candidates, toBoxIndex)
      uniqueLabels == { filtered[k].label : k \in DOMAIN filtered }
  IN [ filtered |-> filtered,
       edges |-> IF Len(filtered) > 1 /\ Cardinality(uniqueLabels) = 1
                 THEN [k \in DOMAIN filtered |->
                         [fromBoxIndex |-> filtered[k].sourceBoxIndex,
                          toBoxIndex |-> toBoxIndex, label |-> filtered[k].label]]
                 ELSE <<[fromBoxIndex |-> bestCandidate(filtered, toBoxIndex).sourceBoxIndex,
                         toBoxIndex |-> toBoxIndex,
                         label |-> bestCandidate(filtered, toBoxIndex).label]>> ]

\* visited has the arrowhead and the border cell of the source at least
SourceCandidates ==
  [ sourceBoxIndex : 1..MaxBoxes,
    visited : { [i \in 1..n |-> i] : n \in 2..MaxVisited },
    label : {"", "a"} ]

SourcesInit ==
  /\ pc = "sources"
  /\ RouteIdle
  /\ ctx = <<>>
  /\ query \in [ candidates : SeqsUpTo(SourceCandidates, MaxCandidates) \ {<<>>},
                 toBoxIndex : 1..MaxBoxes ]
  /\ result = <<>>
  /\ nSearch = 0

RunSourcesOfArrowhead ==
  /\ pc = "sources"
  /\ nSearch = 0
  /\ result' = sourcesOfArrowhead(query.candidates, query.toBoxIndex)
  /\ nSearch' = 1
  /\ UNCHANGED <<pc, ctx, query, routeVars>>

SpecSources == SourcesInit /\ [][RunSourcesOfArrowhead]_vars

IsSelfCandidate(i) == query.candidates[i].sourceBoxIndex = query.toBoxIndex

PathLength(i) == Len(query.candidates[i].visited)

NonSelfCandidates == { i \in DOMAIN query.candidates : ~IsSelfCandidate(i) }

ShortestNonSelf == MinOf({ PathLength(i) : i \in NonSelfCandidates })

\* the candidates at the positions of Keep, in their order
RECURSIVE CandidatesAt(_, _)
CandidatesAt(Keep, i) ==
  IF i > Len(query.candidates) THEN <<>>
  ELSE (IF i \in Keep THEN <<query.candidates[i]>> ELSE <<>>) \o CandidatesAt(Keep, i + 1)

SeveralWithNonSelf ==
  pc = "sources" /\ nSearch = 1 /\ Len(query.candidates) > 1 /\ NonSelfCandidates # {}

JUNCTION_CHARS ==
  {"hline", "vline", "tl", "tr", "bl", "br", "tee_r", "tee_l", "tee_d", "tee_u",
   "cross", "half_l", "half_u", "half_r", "half_d"}

JunctionsInit ==
  /\ pc = "junctions"
  /\ RouteIdle
  /\ ctx = <<>>
  /\ query \in [c1 : JUNCTION_CHARS, c2 : JUNCTION_CHARS]
  /\ result = <<>>
  /\ nSearch = 0

RunMergeJunctions ==
  /\ pc = "junctions"
  /\ nSearch = 0
  /\ result' = [ merged |-> mergeJunctions(query.c1, query.c2),
                 swapped |-> mergeJunctions(query.c2, query.c1),
                 cell |-> mergeCanvases(<<<<query.c1>>>>, FALSE, <<<<query.c2>>>>)[1][1] ]
  /\ nSearch' = 1
  /\ UNCHANGED <<pc, ctx, query, routeVars>>

SpecJunctions == JunctionsInit /\ [][RunMergeJunctions]_vars

\* the sides a glyph connects to
Connectivity ==
  [hline |-> {"l", "r"}, vline |-> {"u", "d"}, tl |-> {"r", "d"}, tr |-> {"l", "d"},
   bl |-> {"r", "u"}, br |-> {"l", "u"}, tee_r |-> {"u", "d", "r"}, tee_l |-> {"u", "d", "l"},
   tee_d |-> {"l", "r", "d"}, tee_u |-> {"l", "r", "u"}, cross |-> {"l", "r", "u", "d"},
   half_l |-> {"l"}, half_u |-> {"u"}, half_r |-> {"r"}, half_d |-> {"d"}]

Merged == pc = "junctions" /\ nSearch = 1

UnionOfInputs ==
  /\ Connectivity[result.merged] = Connectivity[query.c1] \cup Connectivity[query.c2]
  /\ result.cell = result.merged
  /\ result.swapped = result.merged

\* C30: for any two glyphs of the junction set the merged glyph connects to
\* the sides either input connects to, and swapping the inputs changes nothing.
C30_UnionOfConnectivity == Merged => UnionOfInputs

\* the same for the ten glyphs that have a row in the table
C30_UnionOnTableGlyphs ==
  (Merged /\ {query.c1, query.c2} \subseteq DOMAIN JUNCTION_MAP) => UnionOfInputs

\* a corner merged with the opposite corner
C30_Witness ==
  /\ Merged
  /\ query.c1 = "tl" /\ query.c2 = "br"
  /\ result.merged = "cross"

====
